---------------------------- MODULE Spec2Model ----------------------------
(***************************************************************************)
(* Model of the analytics dashboard's ingestion, aggregation and caching   *)
(* pipeline: the CSV processor (readBatches / processBatchWorker /         *)
(* ProcessLargeCSV), the row parser (Transaction.ParseCSVRow), the         *)
(* aggregation engine (AnalyticsService), the two-tier cache               *)
(* (CacheService) and the request handlers that tie them together          *)
(* (AnalyticsHandler).                                                     *)
(*                                                                         *)
(* Strings are sequences of one-character strings, so that trimming,       *)
(* concatenation, parsing and byte-wise comparison are computed.           *)
(***************************************************************************)
EXTENDS Integers, Sequences, FiniteSets, TLC

(***************************************************************************)
(* Bounds of the model.                                                    *)
(***************************************************************************)
\* largest number of data rows in the CSV source
MaxRows == 3
\* number of concurrent request goroutines
NumCallers == 2
\* last instant of the discrete clock (one tick = one hour)
MaxClock == 2
\* number of rows an external writer may append to the CSV source
MaxAppends == 1
MaxRecords == 3

(***************************************************************************)
(* Strings.                                                                *)
(***************************************************************************)
\* an invalid UTF-8 byte (0xE3, Latin-1 a-tilde) as it may occur in a CSV
BadByte == "xE3"
\* U+FFFD, the rune encoding/json substitutes for invalid UTF-8
ReplacementRune == "uFFFD"

Digits == {"0", "1", "2", "3", "4", "5", "6", "7", "8", "9"}

DigitVal(c) ==
    CASE c = "0" -> 0 [] c = "1" -> 1 [] c = "2" -> 2 [] c = "3" -> 3
      [] c = "4" -> 4 [] c = "5" -> 5 [] c = "6" -> 6 [] c = "7" -> 7
      [] c = "8" -> 8 [] c = "9" -> 9

DigitChar(n) ==
    CASE n = 0 -> "0" [] n = 1 -> "1" [] n = 2 -> "2" [] n = 3 -> "3"
      [] n = 4 -> "4" [] n = 5 -> "5" [] n = 6 -> "6" [] n = 7 -> "7"
      [] n = 8 -> "8" [] n = 9 -> "9"

\* the first byte of a character, for Go's byte-wise string comparison
CharCode(c) ==
    CASE c \in Digits -> 48 + DigitVal(c)
      [] c = " " -> 32 [] c = "+" -> 43 [] c = "-" -> 45 [] c = "." -> 46
      [] c = "/" -> 47 [] c = ":" -> 58
      [] c = "A" -> 65 [] c = "B" -> 66 [] c = "P" -> 80 [] c = "Q" -> 81
      [] c = "X" -> 88 [] c = "Y" -> 89 [] c = "|" -> 124
      [] c = BadByte -> 227 [] c = ReplacementRune -> 239
      [] OTHER -> 63

RECURSIVE StrLess(_, _)
StrLess(a, b) ==
    IF b = <<>> THEN FALSE
    ELSE IF a = <<>> THEN TRUE
    ELSE IF CharCode(Head(a)) # CharCode(Head(b))
         THEN CharCode(Head(a)) < CharCode(Head(b))
    ELSE StrLess(Tail(a), Tail(b))

RECURSIVE TrimLeft(_)
TrimLeft(s) == IF s # <<>> /\ Head(s) = " " THEN TrimLeft(Tail(s)) ELSE s

RECURSIVE TrimRight(_)
TrimRight(s) ==
    IF s # <<>> /\ s[Len(s)] = " " THEN TrimRight(SubSeq(s, 1, Len(s) - 1)) ELSE s

TrimSpace(s) == TrimRight(TrimLeft(s))

AllDigits(s) == \A i \in 1..Len(s) : s[i] \in Digits

RECURSIVE DigitsVal(_)
DigitsVal(s) ==
    IF s = <<>> THEN 0 ELSE 10 * DigitsVal(SubSeq(s, 1, Len(s) - 1)) + DigitVal(s[Len(s)])

\* two decimal digits, zero padded
Pad2(n) == <<DigitChar((n \div 10) % 10), DigitChar(n % 10)>>

Pad4(n) == <<DigitChar((n \div 1000) % 10), DigitChar((n \div 100) % 10)>> \o Pad2(n % 100)

(***************************************************************************)
(* strconv.Atoi and strconv.ParseFloat on the decimal forms the model      *)
(* uses: an optional sign, digits, and for floats up to two fraction       *)
(* digits and the spellings of infinity and not-a-number.  A float64 is an  *)
(* integer number of hundredths below PosInf in magnitude; a sum that      *)
(* reaches PosInf overflows to +Inf, as float64 addition does; NaN is a    *)
(* value of its own.  An int is 31 bits wide: Atoi fails with a range      *)
(* error on digits above IntMax, and int addition wraps around.            *)
(***************************************************************************)
IntMax == 2^30 - 1

WrapAdd(a, b) == IF a + b > IntMax THEN a + b - 2 * (IntMax + 1) ELSE a + b

Atoi(s) ==
    LET signed == s # <<>> /\ Head(s) \in {"+", "-"}
        body   == IF signed THEN Tail(s) ELSE s
    IN  IF body = <<>> \/ ~AllDigits(body) THEN [ok |-> FALSE, v |-> 0]
        ELSE IF DigitsVal(body) > IntMax THEN [ok |-> FALSE, v |-> IntMax]
        ELSE [ok |-> TRUE,
              v  |-> IF signed /\ Head(s) = "-" THEN 0 - DigitsVal(body) ELSE DigitsVal(body)]

PosInf == 2^30
NaN == 0 - 2^30

IsFinite(f) == f # PosInf /\ f # NaN

\* Go's x >= 0 on float64: false for NaN, true for +Inf
FloatGeqZero(f) == IF f = NaN THEN FALSE ELSE IF f = PosInf THEN TRUE ELSE f >= 0

ParseFloat(s) ==
    LET signed == s # <<>> /\ Head(s) \in {"+", "-"}
        neg    == signed /\ Head(s) = "-"
        body   == IF signed THEN Tail(s) ELSE s
        dot    == {i \in 1..Len(body) : body[i] = "."}
        ipart  == IF dot = {} THEN body
                  ELSE SubSeq(body, 1, (CHOOSE i \in dot : TRUE) - 1)
        fpart  == IF dot = {} THEN <<>>
                  ELSE SubSeq(body, (CHOOSE i \in dot : TRUE) + 1, Len(body))
        frac   == IF fpart = <<>> THEN 0
                  ELSE IF Len(fpart) = 1 THEN 10 * DigitsVal(fpart)
                  ELSE DigitsVal(fpart)
        mag    == 100 * DigitsVal(ipart) + frac
    IN  IF body = <<"I", "n", "f">> /\ ~neg THEN [ok |-> TRUE, v |-> PosInf]
        ELSE IF body = <<"N", "a", "N">> /\ ~signed THEN [ok |-> TRUE, v |-> NaN]
        ELSE IF Cardinality(dot) > 1 \/ (ipart = <<>> /\ fpart = <<>>)
                \/ ~AllDigits(ipart) \/ ~AllDigits(fpart) \/ Len(fpart) > 2
             THEN [ok |-> FALSE, v |-> 0]
        ELSE [ok |-> TRUE, v |-> IF neg THEN 0 - mag ELSE mag]

(***************************************************************************)
(* time.Parse for the three layouts ParseCSVRow tries, and Format for      *)
(* GetMonth.  A time is a record of its calendar fields; the zero          *)
(* time.Time is January 1 of year 1.                                       *)
(***************************************************************************)
ZeroTime == [y |-> 1, m |-> 1, d |-> 1, hh |-> 0, mm |-> 0, ss |-> 0]

IsLeap(y) == (y % 4 = 0 /\ y % 100 # 0) \/ y % 400 = 0

DaysIn(y, m) ==
    IF m = 2 THEN (IF IsLeap(y) THEN 29 ELSE 28)
    ELSE IF m \in {4, 6, 9, 11} THEN 30 ELSE 31

\* the number written in s[i..j], or -1 when those are not all digits
NumAt(s, i, j) ==
    IF j <= Len(s) /\ AllDigits(SubSeq(s, i, j)) THEN DigitsVal(SubSeq(s, i, j)) ELSE 0 - 1

CharAt(s, i, c) == i <= Len(s) /\ s[i] = c

ValidDate(y, m, d) == y >= 0 /\ m \in 1..12 /\ d >= 1 /\ d <= DaysIn(y, m)

\* layout "2006-01-02"
ParseDateISO(s) ==
    LET y == NumAt(s, 1, 4)  m == NumAt(s, 6, 7)  d == NumAt(s, 9, 10)
    IN  IF Len(s) = 10 /\ CharAt(s, 5, "-") /\ CharAt(s, 8, "-") /\ ValidDate(y, m, d)
        THEN [ok |-> TRUE, v |-> [ZeroTime EXCEPT !.y = y, !.m = m, !.d = d]]
        ELSE [ok |-> FALSE, v |-> ZeroTime]

\* layout "01/02/2006"
ParseDateUS(s) ==
    LET m == NumAt(s, 1, 2)  d == NumAt(s, 4, 5)  y == NumAt(s, 7, 10)
    IN  IF Len(s) = 10 /\ CharAt(s, 3, "/") /\ CharAt(s, 6, "/") /\ ValidDate(y, m, d)
        THEN [ok |-> TRUE, v |-> [ZeroTime EXCEPT !.y = y, !.m = m, !.d = d]]
        ELSE [ok |-> FALSE, v |-> ZeroTime]

\* layout "2006-01-02 15:04:05"
ParseDateTime(s) ==
    LET date == ParseDateISO(SubSeq(s, 1, 10))
        hh == NumAt(s, 12, 13)  mm == NumAt(s, 15, 16)  ss == NumAt(s, 18, 19)
    IN  IF Len(s) = 19 /\ date.ok /\ CharAt(s, 11, " ") /\ CharAt(s, 14, ":")
           /\ CharAt(s, 17, ":") /\ hh \in 0..23 /\ mm \in 0..59 /\ ss \in 0..59
        THEN [ok |-> TRUE, v |-> [date.v EXCEPT !.hh = hh, !.mm = mm, !.ss = ss]]
        ELSE [ok |-> FALSE, v |-> ZeroTime]

(***************************************************************************)
(* models.Transaction and Transaction.ParseCSVRow.  A row is a sequence of *)
(* field strings; Go's row[k] is row[k + 1] here.                          *)
(***************************************************************************)
ZeroTransaction ==
    [TransactionID |-> <<>>, TransactionDate |-> ZeroTime, UserID |-> <<>>,
     Country |-> <<>>, Region |-> <<>>, ProductID |-> <<>>, ProductName |-> <<>>,
     Category |-> <<>>, Price |-> 0, Quantity |-> 0, TotalPrice |-> 0,
     StockQuantity |-> 0, AddedDate |-> ZeroTime]

ParseError == [err |-> TRUE, t |-> ZeroTransaction]

ParseCSVRow(row) ==
    IF Len(row) < 12 THEN ParseError
    ELSE
    LET id       == TrimSpace(row[1])
        dateStr  == TrimSpace(row[2])
        iso      == ParseDateISO(dateStr)
        us       == ParseDateUS(dateStr)
        dt       == ParseDateTime(dateStr)
        priceStr == TrimSpace(row[9])
        price    == ParseFloat(priceStr)
        qtyStr   == TrimSpace(row[10])
        qty      == Atoi(qtyStr)
        totalStr == TrimSpace(row[11])
        total    == ParseFloat(totalStr)
        stockStr == TrimSpace(row[12])
        stock    == Atoi(stockStr)
        addedStr == IF Len(row) > 12 THEN TrimSpace(row[13]) ELSE <<>>
        addedIso == ParseDateISO(addedStr)
        addedUs  == ParseDateUS(addedStr)
    IN  IF id = <<>> THEN ParseError
        ELSE IF dateStr # <<>> /\ ~iso.ok /\ ~us.ok /\ ~dt.ok THEN ParseError
        ELSE IF priceStr # <<>> /\ ~(price.ok /\ FloatGeqZero(price.v)) THEN ParseError
        ELSE IF qtyStr # <<>> /\ ~(qty.ok /\ qty.v > 0) THEN ParseError
        ELSE IF totalStr # <<>> /\ ~(total.ok /\ FloatGeqZero(total.v)) THEN ParseError
        ELSE IF stockStr # <<>> /\ ~(stock.ok /\ stock.v >= 0) THEN ParseError
        ELSE [err |-> FALSE,
              t |-> [TransactionID   |-> id,
                     TransactionDate |-> IF dateStr = <<>> THEN ZeroTime
                                         ELSE IF iso.ok THEN iso.v
                                         ELSE IF us.ok THEN us.v ELSE dt.v,
                     UserID          |-> TrimSpace(row[3]),
                     Country         |-> TrimSpace(row[4]),
                     Region          |-> TrimSpace(row[5]),
                     ProductID       |-> TrimSpace(row[6]),
                     ProductName     |-> TrimSpace(row[7]),
                     Category        |-> TrimSpace(row[8]),
                     Price           |-> IF priceStr = <<>> THEN 0 ELSE price.v,
                     Quantity        |-> IF qtyStr = <<>> THEN 0 ELSE qty.v,
                     TotalPrice      |-> IF totalStr = <<>> THEN 0 ELSE total.v,
                     StockQuantity   |-> IF stockStr = <<>> THEN 0 ELSE stock.v,
                     AddedDate       |-> IF addedStr = <<>> THEN ZeroTime
                                         ELSE IF addedIso.ok THEN addedIso.v
                                         ELSE IF addedUs.ok THEN addedUs.v
                                         ELSE ZeroTime]]

\* Transaction.GetMonth: TransactionDate.Format("2006-01")
GetMonth(t) == Pad4(t.TransactionDate.y) \o <<"-">> \o Pad2(t.TransactionDate.m)


(***************************************************************************)
(* float64 arithmetic as the aggregation uses it.                          *)
(***************************************************************************)
FAdd(a, b) ==
    IF a = NaN \/ b = NaN THEN NaN
    ELSE IF a = PosInf \/ b = PosInf \/ a + b >= PosInf THEN PosInf
    ELSE a + b

\* Go's a > b on float64
FGreater(a, b) ==
    IF a = NaN \/ b = NaN THEN FALSE
    ELSE IF b = PosInf THEN FALSE
    ELSE IF a = PosInf THEN TRUE
    ELSE a > b

(***************************************************************************)
(* sort.Slice over the entries of a Go map.  Map iteration order is        *)
(* unspecified and sort.Slice is not stable, so the result is any          *)
(* arrangement of the entries in which no element precedes one that the    *)
(* comparison puts strictly before it.  before is the set of pairs <<a, b>>*)
(* for which less(a, b) holds.                                             *)
(***************************************************************************)
RECURSIVE SortedSeqs(_, _)
SortedSeqs(E, before) ==
    IF E = {} THEN {<<>>}
    ELSE UNION {{<<x>> \o s : s \in SortedSeqs(E \ {x}, before)} :
                    x \in {x \in E : \A y \in E : <<y, x>> \notin before}}

\* a view that is never cut
Truncate_keepAll(s, n) == s

\* result[:n] when len(result) > n
Truncate(s, n) == IF Len(s) > n THEN SubSeq(s, 1, n) ELSE s

Values(m) == {m[k] : k \in DOMAIN m}

\* the map m with key k bound to v
MapPut(m, k, v) == [x \in (DOMAIN m) \cup {k} |-> IF x = k THEN v ELSE m[x]]

EmptyMap == [x \in {} |-> 0]

(***************************************************************************)
(* AnalyticsService: the four aggregate views.                             *)
(***************************************************************************)
TopProductsLimit == 20
TopRegionsLimit == 30

RECURSIVE revenueMap(_)
revenueMap(transactions) ==
    IF transactions = <<>> THEN EmptyMap
    ELSE LET m   == revenueMap(SubSeq(transactions, 1, Len(transactions) - 1))
             t   == transactions[Len(transactions)]
             key == t.Country \o <<"|">> \o t.ProductName
         IN  IF key \in DOMAIN m
             THEN [m EXCEPT ![key] = [@ EXCEPT !.TotalRevenue = FAdd(@, t.TotalPrice),
                                               !.TransactionCount = @ + 1]]
             ELSE MapPut(m, key, [Country |-> t.Country, ProductName |-> t.ProductName,
                                  TotalRevenue |-> t.TotalPrice, TransactionCount |-> 1])

generateCountryRevenue(transactions) ==
    LET E == Values(revenueMap(transactions))
    IN  SortedSeqs(E, {p \in E \X E : FGreater(p[1].TotalRevenue, p[2].TotalRevenue)})

RECURSIVE productMap(_)
productMap(transactions) ==
    IF transactions = <<>> THEN EmptyMap
    ELSE LET m == productMap(SubSeq(transactions, 1, Len(transactions) - 1))
             t == transactions[Len(transactions)]
         IN  IF t.ProductID \in DOMAIN m
             THEN [m EXCEPT ![t.ProductID] = [@ EXCEPT !.PurchaseCount = @ + t.Quantity]]
             ELSE MapPut(m, t.ProductID,
                         [ProductID |-> t.ProductID, ProductName |-> t.ProductName,
                          PurchaseCount |-> t.Quantity, StockQuantity |-> t.StockQuantity])

generateTopProducts(transactions) ==
    LET E == Values(productMap(transactions))
    IN  {Truncate(s, TopProductsLimit) :
            s \in SortedSeqs(E, {p \in E \X E : p[1].PurchaseCount > p[2].PurchaseCount})}

RECURSIVE monthlyMap(_)
monthlyMap(transactions) ==
    IF transactions = <<>> THEN EmptyMap
    ELSE LET m     == monthlyMap(SubSeq(transactions, 1, Len(transactions) - 1))
             t     == transactions[Len(transactions)]
             month == GetMonth(t)
         IN  IF month \in DOMAIN m
             THEN [m EXCEPT ![month] = [@ EXCEPT !.SalesVolume = FAdd(@, t.TotalPrice),
                                                 !.ItemCount = @ + t.Quantity]]
             ELSE MapPut(m, month, [Month |-> month, SalesVolume |-> t.TotalPrice,
                                    ItemCount |-> t.Quantity])

\* a monthly view left in the order the map yields its entries
generateMonthlySales_unsorted(transactions) ==
    LET E == Values(monthlyMap(transactions))
    IN  SortedSeqs(E, {})

generateMonthlySales(transactions) ==
    LET E == Values(monthlyMap(transactions))
    IN  SortedSeqs(E, {p \in E \X E : StrLess(p[1].Month, p[2].Month)})

RECURSIVE regionMap(_)
regionMap(transactions) ==
    IF transactions = <<>> THEN EmptyMap
    ELSE LET m == regionMap(SubSeq(transactions, 1, Len(transactions) - 1))
             t == transactions[Len(transactions)]
         IN  IF t.Region \in DOMAIN m
             THEN [m EXCEPT ![t.Region] = [@ EXCEPT !.TotalRevenue = FAdd(@, t.TotalPrice),
                                                    !.ItemsSold = @ + t.Quantity]]
             ELSE MapPut(m, t.Region, [Region |-> t.Region, TotalRevenue |-> t.TotalPrice,
                                       ItemsSold |-> t.Quantity])

\* a region view sorted by items sold
generateTopRegions_byItems(transactions) ==
    LET E == Values(regionMap(transactions))
    IN  {Truncate(s, TopRegionsLimit) :
            s \in SortedSeqs(E, {p \in E \X E : p[1].ItemsSold > p[2].ItemsSold})}

generateTopRegions(transactions) ==
    LET E == Values(regionMap(transactions))
    IN  {Truncate(s, TopRegionsLimit) :
            s \in SortedSeqs(E, {p \in E \X E : FGreater(p[1].TotalRevenue, p[2].TotalRevenue)})}

\* The set of bundles GenerateAnalytics may return for these transactions
\* (one per admissible tie order).  processingTime is time.Since(startTime).
GenerateAnalytics(transactions, processingTime) ==
    {[CountryRevenue   |-> cr,
      TopProducts      |-> tp,
      MonthlySales     |-> ms,
      TopRegions       |-> tr,
      ProcessingTimeMs |-> processingTime,
      TotalRecords     |-> Len(transactions),
      CacheHit         |-> FALSE] :
        cr \in generateCountryRevenue(transactions),
        tp \in generateTopProducts(transactions),
        ms \in generateMonthlySales(transactions),
        tr \in generateTopRegions(transactions)}


(***************************************************************************)
(* The CSV source.  A file is a sequence of lines, each a sequence of      *)
(* fields; the first line is the header.  Line i of the data is one of     *)
(* three kinds: a well-formed row, a row whose quantity is negative (the   *)
(* row parser rejects it), or a row with too few fields (encoding/csv      *)
(* rejects it, because the header fixes the number of fields per record).  *)
(***************************************************************************)
Str(a) == <<a>>

Header == [i \in 1..12 |-> Str("A")]

GoodRow(i) ==
    <<Str(DigitChar(i)),
      <<"2", "0", "2", "3", "-", "0", DigitChar(1 + (i % 2)), "-", "1", "5">>,
      Str("A"),
      IF i % 2 = 1 THEN Str("X") ELSE Str("Y"),
      IF i % 3 = 0 THEN Str("Q") ELSE Str("P"),
      IF i % 2 = 1 THEN Str("A") ELSE Str("B"),
      IF i % 2 = 1 THEN Str("P") ELSE Str("Q"),
      Str("A"),
      <<DigitChar(i), ".", "5">>,
      Str(DigitChar(i)),
      <<DigitChar(i), "0">>,
      Str(DigitChar(i % 3))>>

BadRow(i) == [GoodRow(i) EXCEPT ![10] = <<"-", "1">>]

ShortRow(i) == SubSeq(GoodRow(i), 1, 3)

\* a row whose country holds a byte that is not valid UTF-8
Utf8Row(i) == [GoodRow(i) EXCEPT ![4] = <<BadByte>>]

RowKinds == {"good", "bad", "short"}

MakeRow(i, kind) ==
    IF kind = "good" THEN GoodRow(i)
    ELSE IF kind = "bad" THEN BadRow(i)
    ELSE IF kind = "utf8" THEN Utf8Row(i)
    ELSE ShortRow(i)

\* a file with a header and one data row per element of kinds
MakeSource(kinds) ==
    [exists |-> TRUE, appended |-> 0,
     lines |-> <<Header>> \o [i \in 1..Len(kinds) |-> MakeRow(i, kinds[i])]]

\* csv.Reader.Read with FieldsPerRecord = 0: the first record (the header)
\* fixes the field count; any other count is ErrFieldCount
csvRead(lines, pos) ==
    IF Len(lines[pos]) # Len(lines[1]) THEN [err |-> TRUE, record |-> <<>>]
    ELSE [err |-> FALSE, record |-> lines[pos]]

(***************************************************************************)
(* State.                                                                  *)
(***************************************************************************)
Callers == 1..NumCallers
MaxWorkers == 2
MaxBatchSize == 2
WorkerIds == 1..MaxWorkers

\* make(chan IndexedBatch, 5), make(chan BatchResult, 5)
BatchChanCap == 5
ResultChanCap == 5

VARIABLES
    source,       \* the CSV file at csvPath
    batchSize,    \* CSVProcessor.batchSize
    workerPool,   \* CSVProcessor.workerPool
    budget,       \* the number of requests the clients send
    query,        \* the limit and offset parameters of the request's URL, as sent
    now,          \* the clock, in hours
    pc,           \* where each request goroutine stands
    op,           \* the handler each request goroutine runs
    reqId,        \* the number of the request each goroutine serves
    requests,     \* requests begun so far
    ctxDone,      \* whether the request's context is cancelled or past its deadline
    mu,           \* globalProcessingMu: 0 when free, else the holder
    reader,       \* per ProcessLargeCSV call: the readBatches goroutine
    batchChan,    \* per call: the channel of IndexedBatch
    batchCount,   \* per call: the channel of the final batch count (capacity 1)
    workers,      \* per call: the processBatchWorker goroutines
    resultChan,   \* per call: the channel of BatchResult
    collector,    \* per call: the locals of the collecting loop
    plcResult,    \* per call: what ProcessLargeCSV returned
    sentBatches,  \* per call: the batches delivered to batchChan, in order (history)
    cacheData,    \* CacheService.cacheData: nil or a pointer to a bundle
    cacheTime,    \* CacheService.cacheTime
    rlock,        \* the goroutines holding CacheService.mu.RLock()
    cacheFile,    \* the durable file at cachePath
    writers,      \* the SaveToFile calls in progress, by request
    analytics,    \* per request goroutine: the local variable analytics
    response,     \* per request goroutine: what its last request returned
    memStats,     \* per request goroutine: the Alloc its last runtime.ReadMemStats found
    runs,         \* the ProcessLargeCSV runs so far: who ran, and who was in flight then (history)
    published,    \* the bundles GenerateAnalytics has returned, by run (history)
    lastRefresh,  \* the run of the last refresh that returned successfully (history)
    seenRefresh,  \* per request: lastRefresh when the request began (history)
    cancelledRun  \* per request: its context ended while its pipeline was running (history)

pipeVars == <<reader, batchChan, batchCount, workers, resultChan, collector>>
cfgVars == <<batchSize, workerPool, budget, query>>
reqVars == <<op, reqId, requests, ctxDone, analytics, response, memStats>>
cacheVars == <<cacheData, cacheTime, rlock, cacheFile, writers>>
histVars == <<runs, published, lastRefresh, seenRefresh, cancelledRun>>
\* what a step inside one pipeline leaves alone
outsidePipe == <<source, cfgVars, now, pc, mu, plcResult, reqVars, cacheVars, histVars>>
vars == <<source, cfgVars, now, pc, mu, plcResult, sentBatches, pipeVars, reqVars,
          cacheVars, histVars>>

\* r.URL.Query().Get(key) is "" for a parameter the URL does not carry
NoQuery == [limit |-> <<>>, offset |-> <<>>]

Ops == {"GetAnalytics", "getAnalyticsData", "RefreshCache"}
\* requests served in one behaviour
MaxRequests == 3
Requests == 1..MaxRequests

ReaderOff == [pc |-> "off", pos |-> 0, batch |-> <<>>, batchIndex |-> 0, totalRowsRead |-> 0]
ChanEmpty == [q |-> <<>>, closed |-> FALSE]
WorkerOff == [pc |-> "off", indexedBatch |-> <<>>, result |-> <<>>]
CollectorOff == [batchResults |-> EmptyMap, errorCount |-> 0, totalParseErrors |-> 0,
                 maxBatchIndex |-> 0 - 1]
NoResult == [returned |-> FALSE]

\* a Lock() that returns whether or not the mutex is held
MutexFree_always == TRUE

\* globalProcessingMu.Lock() returns only when the mutex is free
MutexFree == mu = 0

(***************************************************************************)
(* ProcessLargeCSV, lines 64-106: take the lock, open the file, skip the   *)
(* header, start the workers, the reader and the closer.                   *)
(***************************************************************************)
ProcessLargeCSV_Start(c) ==
    /\ pc[c] = "plc_lock"
    /\ MutexFree
    /\ mu' = c
    /\ sentBatches' = [sentBatches EXCEPT ![c] = <<>>]
    /\ runs' = runs \cup {[req |-> reqId[c], op |-> op[c], during |-> seenRefresh[c].during]}
    /\ UNCHANGED <<source, cfgVars, now, reqVars, cacheVars, published, lastRefresh, seenRefresh, cancelledRun>>
    /\ IF ~source.exists \/ source.lines = <<>>
       THEN /\ plcResult' = [plcResult EXCEPT ![c] = [returned |-> TRUE, err |-> TRUE]]
            /\ pc' = [pc EXCEPT ![c] = "plc_return"]
            /\ UNCHANGED pipeVars
       ELSE /\ reader' = [reader EXCEPT ![c] = [ReaderOff EXCEPT !.pc = "head", !.pos = 2]]
            /\ workers' = [workers EXCEPT ![c] =
                              [w \in WorkerIds |->
                                  IF w <= workerPool THEN [WorkerOff EXCEPT !.pc = "recv"]
                                  ELSE WorkerOff]]
            /\ batchChan' = [batchChan EXCEPT ![c] = ChanEmpty]
            /\ resultChan' = [resultChan EXCEPT ![c] = ChanEmpty]
            /\ batchCount' = [batchCount EXCEPT ![c] = <<>>]
            /\ collector' = [collector EXCEPT ![c] = CollectorOff]
            /\ pc' = [pc EXCEPT ![c] = "plc_run"]
            /\ UNCHANGED plcResult

(***************************************************************************)
(* readBatches, lines 226-289.                                             *)
(***************************************************************************)
\* a reader that numbers every batch 0
IndexedBatch_unnumbered(records, index) == [Records |-> records, Index |-> 0]

IndexedBatch(records, index) == [Records |-> records, Index |-> index]

\* a reader that counts the batch it was sending when it gave up
readerReturn_countsDropped(c, sent) ==
    LET r == reader[c]
    IN  /\ reader' = [reader EXCEPT ![c] = [r EXCEPT !.pc = "done", !.batch = <<>>,
                                                    !.batchIndex = IF r.batch = <<>> THEN @ ELSE @ + 1]]
        /\ batchCount' = [batchCount EXCEPT ![c] =
                             Append(@, IF r.batch = <<>> THEN r.batchIndex ELSE r.batchIndex + 1)]
        /\ batchChan' = [batchChan EXCEPT ![c] =
                            [q |-> IF sent THEN Append(@.q, IndexedBatch(r.batch, r.batchIndex))
                                   ELSE @.q,
                             closed |-> TRUE]]
        /\ sentBatches' = [sentBatches EXCEPT ![c] =
                              IF sent THEN Append(@, r.batch) ELSE @]

\* a reader that returns without reporting its count
readerReturn_noCount(c, sent) ==
    LET r     == reader[c]
        index == IF sent THEN r.batchIndex + 1 ELSE r.batchIndex
    IN  /\ reader' = [reader EXCEPT ![c] = [r EXCEPT !.pc = "done", !.batchIndex = index,
                                                    !.batch = <<>>]]
        /\ batchCount' = IF ctxDone[c] THEN batchCount
                         ELSE [batchCount EXCEPT ![c] = Append(@, index)]
        /\ batchChan' = [batchChan EXCEPT ![c] =
                            [q |-> IF sent THEN Append(@.q, IndexedBatch(r.batch, r.batchIndex))
                                   ELSE @.q,
                             closed |-> TRUE]]
        /\ sentBatches' = [sentBatches EXCEPT ![c] =
                              IF sent THEN Append(@, r.batch) ELSE @]

\* the reader returns: batchCount <- batchIndex, then the deferred close(batchChan)
readerReturn(c, sent) ==
    LET r     == reader[c]
        index == IF sent THEN r.batchIndex + 1 ELSE r.batchIndex
    IN  /\ reader' = [reader EXCEPT ![c] = [r EXCEPT !.pc = "done", !.batchIndex = index,
                                                    !.batch = <<>>]]
        /\ batchCount' = [batchCount EXCEPT ![c] = Append(@, index)]
        /\ batchChan' = [batchChan EXCEPT ![c] =
                            [q |-> IF sent THEN Append(@.q, IndexedBatch(r.batch, r.batchIndex))
                                   ELSE @.q,
                             closed |-> TRUE]]
        /\ sentBatches' = [sentBatches EXCEPT ![c] =
                              IF sent THEN Append(@, r.batch) ELSE @]

\* the select that flushes a partial batch (lines 237-241 and 252-256): the send
\* can be chosen when the channel has room, the ctx.Done() case when cancelled
flushChoice(c, sent) ==
    IF sent THEN Len(batchChan[c].q) < BatchChanCap ELSE ctxDone[c]

\* lines 234-246: cancellation seen at the head of the loop
readBatches_Cancelled(c) ==
    /\ pc[c] = "plc_run" /\ reader[c].pc = "head" /\ ctxDone[c]
    /\ \E sent \in BOOLEAN :
          /\ IF reader[c].batch = <<>> THEN ~sent ELSE flushChoice(c, sent)
          /\ readerReturn(c, sent)
    /\ UNCHANGED <<workers, resultChan, collector>>
    /\ UNCHANGED outsidePipe

\* lines 248-276: one reader.Read(); a read error skips the row
readBatches_Read(c) ==
    LET r == reader[c]
        rec == csvRead(source.lines, r.pos)
        batch == Append(r.batch, rec.record)
    IN  /\ pc[c] = "plc_run" /\ r.pc = "head" /\ ~ctxDone[c]
        /\ r.pos <= Len(source.lines)
        /\ reader' = [reader EXCEPT ![c] =
                IF rec.err THEN [r EXCEPT !.pos = @ + 1]
                ELSE [r EXCEPT !.pos = @ + 1, !.totalRowsRead = @ + 1, !.batch = batch,
                               !.pc = IF Len(batch) >= batchSize THEN "send" ELSE "head"]]
        /\ UNCHANGED <<batchChan, batchCount, workers, resultChan, collector, sentBatches>>
        /\ UNCHANGED outsidePipe

\* a send that never waits for room in the channel
readBatches_Send_unbounded(c) ==
    LET r == reader[c]
    IN  /\ pc[c] = "plc_run" /\ r.pc = "send"
        /\ batchChan' = [batchChan EXCEPT ![c].q = Append(@, IndexedBatch(r.batch, r.batchIndex))]
        /\ sentBatches' = [sentBatches EXCEPT ![c] = Append(@, r.batch)]
        /\ reader' = [reader EXCEPT ![c] = [r EXCEPT !.pc = "head", !.batch = <<>>,
                                                    !.batchIndex = @ + 1]]
        /\ UNCHANGED <<batchCount, workers, resultChan, collector>>
        /\ UNCHANGED outsidePipe

\* lines 277-282: the full batch is sent
readBatches_Send(c) ==
    LET r == reader[c]
    IN  /\ pc[c] = "plc_run" /\ r.pc = "send"
        /\ Len(batchChan[c].q) < BatchChanCap
        /\ batchChan' = [batchChan EXCEPT ![c].q = Append(@, IndexedBatch(r.batch, r.batchIndex))]
        /\ sentBatches' = [sentBatches EXCEPT ![c] = Append(@, r.batch)]
        /\ reader' = [reader EXCEPT ![c] = [r EXCEPT !.pc = "head", !.batch = <<>>,
                                                    !.batchIndex = @ + 1]]
        /\ UNCHANGED <<batchCount, workers, resultChan, collector>>
        /\ UNCHANGED outsidePipe

\* lines 283-285: cancelled while sending a full batch; the batch is dropped
readBatches_SendCancelled(c) ==
    /\ pc[c] = "plc_run" /\ reader[c].pc = "send" /\ ctxDone[c]
    /\ readerReturn(c, FALSE)
    /\ UNCHANGED <<workers, resultChan, collector>>
    /\ UNCHANGED outsidePipe

\* lines 248-249: reader.Read() returns io.EOF
readBatches_EOF(c) ==
    /\ pc[c] = "plc_run" /\ reader[c].pc = "head" /\ ~ctxDone[c]
    /\ reader[c].pos > Len(source.lines)
    /\ reader' = [reader EXCEPT ![c].pc = "eof"]
    /\ UNCHANGED <<batchChan, batchCount, workers, resultChan, collector, sentBatches>>
    /\ UNCHANGED outsidePipe

\* lines 250-262: the final batch is flushed and the count reported
readBatches_Finish(c) ==
    /\ pc[c] = "plc_run" /\ reader[c].pc = "eof"
    /\ \E sent \in BOOLEAN :
          /\ IF reader[c].batch = <<>> THEN ~sent ELSE flushChoice(c, sent)
          /\ readerReturn(c, sent)
    /\ UNCHANGED <<workers, resultChan, collector>>
    /\ UNCHANGED outsidePipe

(***************************************************************************)
(* processBatchWorker, lines 292-340.                                      *)
(***************************************************************************)
RECURSIVE parseRows_stopAtError(_)
\* a worker that gives up its batch at the first row that fails
parseRows_stopAtError(batch) ==
    IF batch = <<>> THEN <<>>
    ELSE LET p == ParseCSVRow(Head(batch))
         IN  IF p.err THEN <<>> ELSE <<p.t>> \o parseRows_stopAtError(Tail(batch))

RECURSIVE parseRows(_)
\* lines 306-324: the transactions of the rows that parse, in row order
parseRows(batch) ==
    IF batch = <<>> THEN <<>>
    ELSE LET p == ParseCSVRow(Head(batch))
         IN  IF p.err THEN parseRows(Tail(batch)) ELSE <<p.t>> \o parseRows(Tail(batch))

\* lines 334-338
BatchResult(indexedBatch) ==
    LET transactions == parseRows(indexedBatch.Records)
    IN  [Transactions |-> transactions,
         BatchIndex   |-> indexedBatch.Index,
         Error        |-> FALSE,
         ParseErrors  |-> Len(indexedBatch.Records) - Len(transactions)]

\* line 296: a batch is received
processBatchWorker_Recv(c, w) ==
    /\ pc[c] = "plc_run" /\ workers[c][w].pc = "recv"
    /\ batchChan[c].q # <<>>
    /\ workers' = [workers EXCEPT ![c][w] =
                      [@ EXCEPT !.pc = "check", !.indexedBatch = <<Head(batchChan[c].q)>>]]
    /\ batchChan' = [batchChan EXCEPT ![c].q = Tail(@)]
    /\ UNCHANGED <<reader, batchCount, resultChan, collector, sentBatches>>
    /\ UNCHANGED outsidePipe

\* line 296: the range loop ends on the closed, drained channel
processBatchWorker_Exit(c, w) ==
    /\ pc[c] = "plc_run" /\ workers[c][w].pc = "recv"
    /\ batchChan[c].q = <<>> /\ batchChan[c].closed
    /\ workers' = [workers EXCEPT ![c][w] = [WorkerOff EXCEPT !.pc = "done"]]
    /\ UNCHANGED <<reader, batchChan, batchCount, resultChan, collector, sentBatches>>
    /\ UNCHANGED outsidePipe

\* lines 297-331: return when cancelled, else parse the batch
processBatchWorker_Process(c, w) ==
    /\ pc[c] = "plc_run" /\ workers[c][w].pc = "check"
    /\ workers' = [workers EXCEPT ![c][w] =
          IF ctxDone[c] THEN [WorkerOff EXCEPT !.pc = "done"]
          ELSE [pc |-> "send", indexedBatch |-> <<>>,
                result |-> <<BatchResult(@.indexedBatch[1])>>]]
    /\ UNCHANGED <<reader, batchChan, batchCount, resultChan, collector, sentBatches>>
    /\ UNCHANGED outsidePipe

\* lines 334-338: the result is sent
processBatchWorker_Send(c, w) ==
    /\ pc[c] = "plc_run" /\ workers[c][w].pc = "send"
    /\ Len(resultChan[c].q) < ResultChanCap
    /\ resultChan' = [resultChan EXCEPT ![c].q = Append(@, workers[c][w].result[1])]
    /\ workers' = [workers EXCEPT ![c][w] = [WorkerOff EXCEPT !.pc = "recv"]]
    /\ UNCHANGED <<reader, batchChan, batchCount, collector, sentBatches>>
    /\ UNCHANGED outsidePipe

(***************************************************************************)
(* ProcessLargeCSV, lines 102-202: the closer and the collector.           *)
(***************************************************************************)
\* a closer that waits for the reader instead of the workers
ProcessLargeCSV_CloseResults_early(c) ==
    /\ pc[c] = "plc_run" /\ ~resultChan[c].closed
    /\ reader[c].pc = "done"
    /\ resultChan' = [resultChan EXCEPT ![c].closed = TRUE]
    /\ UNCHANGED <<reader, batchChan, batchCount, workers, collector, sentBatches>>
    /\ UNCHANGED outsidePipe

\* lines 103-106: wg.Wait(); close(resultChan)
ProcessLargeCSV_CloseResults(c) ==
    /\ pc[c] = "plc_run" /\ ~resultChan[c].closed
    /\ \A w \in WorkerIds : workers[c][w].pc \in {"off", "done"}
    /\ resultChan' = [resultChan EXCEPT ![c].closed = TRUE]
    /\ UNCHANGED <<reader, batchChan, batchCount, workers, collector, sentBatches>>
    /\ UNCHANGED outsidePipe

\* lines 115-134: one iteration of the collecting loop
\* the collector keying each result by its arrival rank instead of its BatchIndex
collect_byArrival(col, result) ==
    IF result.Error THEN [col EXCEPT !.errorCount = @ + 1]
    ELSE [batchResults     |-> MapPut(col.batchResults, Cardinality(DOMAIN col.batchResults),
                                      result),
          errorCount       |-> col.errorCount,
          totalParseErrors |-> col.totalParseErrors + result.ParseErrors,
          maxBatchIndex    |-> IF result.BatchIndex > col.maxBatchIndex
                               THEN result.BatchIndex ELSE col.maxBatchIndex]

\* lines 115-134
collect(col, result) ==
    IF result.Error THEN [col EXCEPT !.errorCount = @ + 1]
    ELSE [batchResults     |-> MapPut(col.batchResults, result.BatchIndex, result),
          errorCount       |-> col.errorCount,
          totalParseErrors |-> col.totalParseErrors + result.ParseErrors,
          maxBatchIndex    |-> IF result.BatchIndex > col.maxBatchIndex
                               THEN result.BatchIndex ELSE col.maxBatchIndex]

ProcessLargeCSV_Collect(c) ==
    /\ pc[c] = "plc_run"
    /\ resultChan[c].q # <<>>
    /\ collector' = [collector EXCEPT ![c] = collect(@, Head(resultChan[c].q))]
    /\ resultChan' = [resultChan EXCEPT ![c].q = Tail(@)]
    /\ UNCHANGED <<reader, batchChan, batchCount, workers, sentBatches>>
    /\ UNCHANGED outsidePipe

RECURSIVE reassemble(_, _)
\* lines 159-166: the transactions of batches 0..totalBatches-1 that exist, in order
reassemble(batchResults, totalBatches) ==
    IF totalBatches <= 0 THEN <<>>
    ELSE reassemble(batchResults, totalBatches - 1)
           \o (IF (totalBatches - 1) \in DOMAIN batchResults
               THEN batchResults[totalBatches - 1].Transactions ELSE <<>>)

\* the check for missing batches finding none
missingBatches_none(batchResults, totalBatches) == {}

\* lines 144-150
missingBatches(batchResults, totalBatches) ==
    {i \in 0..(totalBatches - 1) : i \notin DOMAIN batchResults}

\* a data-loss test that also flags a count equal to the threshold
dataLoss_orEqual(n, totalBatches) == 100 * n <= 95 * (totalBatches * batchSize)

\* lines 190-196: float64(len) < float64(expected) * 0.95
dataLoss(n, totalBatches) == 100 * n < 95 * (totalBatches * batchSize)

\* ProcessLargeCSV had it failed a run that lost a batch
processingResult_failOnMissing(col, totalBatches) ==
    LET allTransactions == reassemble(col.batchResults, totalBatches)
        missing         == missingBatches(col.batchResults, totalBatches)
    IN  [returned     |-> TRUE,
         err          |-> missing # {},
         Transactions |-> allTransactions,
         Stats        |-> [TotalRecords     |-> Len(allTransactions),
                           ProcessedRecords |-> Len(allTransactions),
                           ErrorCount       |-> col.errorCount + Cardinality(missing)
                                                  + col.totalParseErrors],
         log          |-> [totalBatches     |-> totalBatches,
                           completed        |-> DOMAIN col.batchResults,
                           missing          |-> missing,
                           dataLoss         |-> dataLoss(Len(allTransactions), totalBatches)]]

\* lines 136-202
processingResult(col, totalBatches) ==
    LET allTransactions == reassemble(col.batchResults, totalBatches)
        missing         == missingBatches(col.batchResults, totalBatches)
        errorCount      == col.errorCount + Cardinality(missing)
    IN  [returned     |-> TRUE,
         err          |-> FALSE,
         Transactions |-> allTransactions,
         Stats        |-> [TotalRecords     |-> Len(allTransactions),
                           ProcessedRecords |-> Len(allTransactions),
                           ErrorCount       |-> errorCount + col.totalParseErrors],
         log          |-> [totalBatches     |-> totalBatches,
                           completed        |-> DOMAIN col.batchResults,
                           missing          |-> missing,
                           dataLoss         |-> dataLoss(Len(allTransactions), totalBatches)]]

ProcessLargeCSV_Finish(c) ==
    /\ pc[c] = "plc_run"
    /\ resultChan[c].q = <<>> /\ resultChan[c].closed
    /\ batchCount[c] # <<>>
    /\ plcResult' = [plcResult EXCEPT ![c] = processingResult(collector[c], batchCount[c][1])]
    /\ pc' = [pc EXCEPT ![c] = "plc_return"]
    /\ UNCHANGED <<source, cfgVars, now, mu, sentBatches, pipeVars, reqVars, cacheVars, histVars>>


\* a ProcessLargeCSV that unlocks only where it returns a result
ProcessLargeCSV_Return_keepsLockOnError(c) ==
    /\ pc[c] = "plc_return"
    /\ mu' = IF plcResult[c].err THEN mu ELSE 0
    /\ reader' = [reader EXCEPT ![c] = ReaderOff]
    /\ workers' = [workers EXCEPT ![c] = [w \in WorkerIds |-> WorkerOff]]
    /\ batchChan' = [batchChan EXCEPT ![c] = ChanEmpty]
    /\ resultChan' = [resultChan EXCEPT ![c] = ChanEmpty]
    /\ batchCount' = [batchCount EXCEPT ![c] = <<>>]
    /\ collector' = [collector EXCEPT ![c] = CollectorOff]
    /\ pc' = [pc EXCEPT ![c] = "returned"]
    /\ UNCHANGED <<source, cfgVars, now, plcResult, sentBatches, reqVars, cacheVars, histVars>>

\* line 67 (the deferred Unlock) and the caller's next statement
ProcessLargeCSV_Return(c) ==
    /\ pc[c] = "plc_return"
    /\ mu' = 0
    /\ reader' = [reader EXCEPT ![c] = ReaderOff]
    /\ workers' = [workers EXCEPT ![c] = [w \in WorkerIds |-> WorkerOff]]
    /\ batchChan' = [batchChan EXCEPT ![c] = ChanEmpty]
    /\ resultChan' = [resultChan EXCEPT ![c] = ChanEmpty]
    /\ batchCount' = [batchCount EXCEPT ![c] = <<>>]
    /\ collector' = [collector EXCEPT ![c] = CollectorOff]
    /\ IF op[c] = "ProcessLargeCSV"
       THEN /\ pc' = [pc EXCEPT ![c] = "returned"]
            /\ UNCHANGED response
       ELSE IF plcResult[c].err
       THEN /\ pc' = [pc EXCEPT ![c] = "idle"]
            /\ response' = [response EXCEPT ![c] = [kind |-> "error"]]
       ELSE /\ pc' = [pc EXCEPT ![c] = IF op[c] = "RefreshCache" THEN "rc_save" ELSE "store"]
            /\ UNCHANGED response
    /\ UNCHANGED <<source, cfgVars, now, plcResult, sentBatches, op, reqId, memStats, requests, ctxDone,
                   analytics, cacheVars, histVars>>

(***************************************************************************)
(* encoding/json on models.AnalyticsResponse.  Marshal fails on a float    *)
(* that is not finite and coerces strings to valid UTF-8, replacing each   *)
(* invalid byte by U+FFFD; Unmarshal of a marshalled document returns its  *)
(* values.                                                                 *)
(***************************************************************************)
toValidUTF8(s) == [i \in 1..Len(s) |-> IF s[i] = BadByte THEN ReplacementRune ELSE s[i]]

jsonCountryRevenue(e) ==
    [e EXCEPT !.Country = toValidUTF8(@), !.ProductName = toValidUTF8(@)]
jsonProductFrequency(e) ==
    [e EXCEPT !.ProductID = toValidUTF8(@), !.ProductName = toValidUTF8(@)]
jsonMonthlySales(e) == [e EXCEPT !.Month = toValidUTF8(@)]
jsonRegionRevenue(e) == [e EXCEPT !.Region = toValidUTF8(@)]

\* the values a document written from data holds
jsonDocument(data) ==
    [data EXCEPT
        !.CountryRevenue = [i \in 1..Len(@) |-> jsonCountryRevenue(@[i])],
        !.TopProducts    = [i \in 1..Len(@) |-> jsonProductFrequency(@[i])],
        !.MonthlySales   = [i \in 1..Len(@) |-> jsonMonthlySales(@[i])],
        !.TopRegions     = [i \in 1..Len(@) |-> jsonRegionRevenue(@[i])]]

\* json: unsupported value: +Inf / NaN
jsonUnsupported(data) ==
    \/ \E i \in 1..Len(data.CountryRevenue) : ~IsFinite(data.CountryRevenue[i].TotalRevenue)
    \/ \E i \in 1..Len(data.MonthlySales) : ~IsFinite(data.MonthlySales[i].SalesVolume)
    \/ \E i \in 1..Len(data.TopRegions) : ~IsFinite(data.TopRegions[i].TotalRevenue)

MarshalIndent(data) ==
    IF jsonUnsupported(data) THEN [err |-> TRUE, doc |-> <<>>]
    ELSE [err |-> FALSE, doc |-> <<jsonDocument(data)>>]

(***************************************************************************)
(* The durable file.  Its content is absent, a complete document, a strict *)
(* prefix of a document (os.WriteFile truncates the file when it opens it  *)
(* and the bytes arrive afterwards), or a document followed by the tail of *)
(* a longer one that another writer put there.                             *)
(***************************************************************************)
FileAbsent == [kind |-> "absent", doc |-> <<>>]
FilePartial == [kind |-> "partial", doc |-> <<>>]
FileGarbage == [kind |-> "garbage", doc |-> <<>>]
FileDoc(doc) == [kind |-> "doc", doc |-> doc]

\* a decoder that takes whatever the file holds and leaves the views it cannot
\* find empty
Unmarshal_lenient(file) ==
    IF file.kind = "doc" THEN [err |-> FALSE, v |-> file.doc]
    ELSE [err |-> FALSE, v |-> <<CHOOSE d \in GenerateAnalytics(<<>>, 0) : TRUE>>]

\* json.Unmarshal of the file's bytes
Unmarshal(file) ==
    IF file.kind = "doc" THEN [err |-> FALSE, v |-> file.doc] ELSE [err |-> TRUE, v |-> <<>>]

\* lines 93-106: os.Stat, os.ReadFile, json.Unmarshal
readCacheFile(file) ==
    IF file.kind = "absent" THEN [err |-> TRUE, v |-> <<>>] ELSE Unmarshal(file)

\* What the file holds once Write has put doc at offset 0 of a file that held old:
\* doc alone, or doc followed by the rest of a longer content written since the
\* truncation.
writtenOver(old, doc) ==
    IF old.kind \in {"doc", "garbage"} THEN {FileDoc(doc), FileGarbage} ELSE {FileDoc(doc)}

(***************************************************************************)
(* CacheService.                                                           *)
(***************************************************************************)
\* cacheTTL: 1 * time.Hour
cacheTTL == 1
\* maxMemory: 500MB
maxMemory == 500 * 1024 * 1024
\* runtime.MemStats.Alloc, as a read may find it
AllocValues == {maxMemory, maxMemory + 1}

Nil == [nil |-> TRUE]
\* a pointer to the bundle data that request obj allocated
Ptr(obj, data) == [nil |-> FALSE, obj |-> obj, data |-> data]

\* a slot whose snapshot is always too old
cacheExpired_always == TRUE

\* line 37: time.Since(c.cacheTime) > c.cacheTTL
cacheExpired == now - cacheTime > cacheTTL

\* lines 44 and 66: memStats.Alloc > uint64(c.maxMemory)
memoryExceeded(alloc) == alloc > maxMemory

NoResponse == [kind |-> "none"]
OkResponse(data, from) == [kind |-> "ok", data |-> data, from |-> from]

\* a SaveToMemory that stores nothing
SaveToMemory_skip(data, obj, alloc) == UNCHANGED <<cacheData, cacheTime>>

\* lines 59-75, under the write lock
SaveToMemory(data, obj, alloc) ==
    IF memoryExceeded(alloc) THEN UNCHANGED <<cacheData, cacheTime>>
    ELSE /\ cacheData' = Ptr(obj, data)
         /\ cacheTime' = now

\* lines 33-39: RLock, then the nil and TTL test; memStats is the memory in
\* use at the time of this read, which line 42 reads only after a passed test
LoadFromCache_Check(c) ==
    /\ pc[c] = "cache"
    /\ \E alloc \in AllocValues : memStats' = [memStats EXCEPT ![c] = alloc]
    /\ IF cacheData = Nil \/ cacheExpired
       THEN /\ pc' = [pc EXCEPT ![c] = "file"]
            /\ UNCHANGED rlock
       ELSE /\ pc' = [pc EXCEPT ![c] = "cache_mem"]
            /\ rlock' = rlock \cup {c}
    /\ UNCHANGED <<source, cfgVars, now, mu, plcResult, sentBatches, pipeVars, op, reqId,
                   requests, ctxDone, analytics, response,
                   cacheData, cacheTime, cacheFile, writers, histVars>>

\* lines 41-56: the memory test, then the copy of *c.cacheData; RUnlock.
\* c.cacheData is read again here: it is nil when another reader has cleared it
\* since line 37, and the dereference panics.
LoadFromCache_Finish(c) ==
    /\ pc[c] = "cache_mem"
    /\ rlock' = rlock \ {c}
    /\ IF memoryExceeded(memStats[c])
       THEN /\ cacheData' = Nil
            /\ pc' = [pc EXCEPT ![c] = "file"]
            /\ UNCHANGED response
       ELSE /\ UNCHANGED cacheData
            /\ pc' = [pc EXCEPT ![c] = "idle"]
            /\ response' = [response EXCEPT ![c] =
                   IF cacheData = Nil THEN [kind |-> "panic"]
                   ELSE OkResponse([cacheData.data EXCEPT !.CacheHit = TRUE], "memory")]
    /\ UNCHANGED <<source, cfgVars, now, mu, plcResult, sentBatches, pipeVars, op, reqId, memStats,
                   requests, ctxDone, analytics, cacheTime, cacheFile, writers, histVars>>

\* a handler that answers a cache file it cannot load with an error
LoadFromFile_Read_fail(c) ==
    LET r == readCacheFile(cacheFile)
    IN  /\ pc[c] = "file"
        /\ IF r.err
           THEN /\ pc' = [pc EXCEPT ![c] = "idle"]
                /\ response' = [response EXCEPT ![c] = [kind |-> "error"]]
                /\ UNCHANGED analytics
           ELSE /\ pc' = [pc EXCEPT ![c] = "file_save"]
                /\ analytics' = [analytics EXCEPT ![c] = r.v]
                /\ UNCHANGED response
        /\ UNCHANGED <<source, cfgVars, now, mu, plcResult, sentBatches, pipeVars, op, reqId, memStats,
                       requests, ctxDone, cacheVars, histVars>>

\* lines 93-106: the file is read and decoded; on an error the caller goes on
\* to ProcessLargeCSV
LoadFromFile_Read(c) ==
    LET r == readCacheFile(cacheFile)
    IN  /\ pc[c] = "file"
        /\ IF r.err
           THEN /\ pc' = [pc EXCEPT ![c] = "plc_lock"]
                /\ UNCHANGED analytics
           ELSE /\ pc' = [pc EXCEPT ![c] = "file_save"]
                /\ analytics' = [analytics EXCEPT ![c] = r.v]
        /\ UNCHANGED <<source, cfgVars, now, mu, plcResult, sentBatches, pipeVars, op, reqId, memStats,
                       requests, ctxDone, response, cacheVars, histVars>>

\* lines 108-112: SaveToMemory(&analytics); getAnalyticsData returns the bundle
LoadFromFile_Save(c) ==
    /\ pc[c] = "file_save"
    /\ rlock = {}
    /\ \E alloc \in AllocValues :
          /\ memStats' = [memStats EXCEPT ![c] = alloc]
          /\ SaveToMemory(analytics[c][1], reqId[c], alloc)
    /\ IF op[c] = "getAnalyticsData"
       THEN /\ pc' = [pc EXCEPT ![c] = "idle"]
            /\ response' = [response EXCEPT ![c] = OkResponse(analytics[c][1], "file")]
       ELSE /\ pc' = [pc EXCEPT ![c] = "file_hit"]
            /\ UNCHANGED response
    /\ UNCHANGED <<source, cfgVars, now, mu, plcResult, sentBatches, pipeVars, op, reqId,
                   requests, ctxDone, analytics, rlock, cacheFile, writers, histVars>>

\* GetAnalytics lines 59-64: analytics.CacheHit = true, on the object that
\* SaveToMemory may have put in the memory slot
GetAnalytics_FileHit(c) ==
    /\ pc[c] = "file_hit"
    /\ cacheData' = IF cacheData # Nil /\ cacheData.obj = reqId[c]
                    THEN [cacheData EXCEPT !.data.CacheHit = TRUE] ELSE cacheData
    /\ response' = [response EXCEPT ![c] =
                       OkResponse([analytics[c][1] EXCEPT !.CacheHit = TRUE], "file")]
    /\ pc' = [pc EXCEPT ![c] = "idle"]
    /\ UNCHANGED <<source, cfgVars, now, mu, plcResult, sentBatches, pipeVars, op, reqId, memStats,
                   requests, ctxDone, analytics, cacheTime, rlock, cacheFile, writers, histVars>>

(***************************************************************************)
(* CacheService.SaveToFile, lines 78-90, as the goroutine or caller that   *)
(* runs it for request r.                                                  *)
(***************************************************************************)
\* before is what the file held when os.WriteFile opened it
WriterIdle == [phase |-> "idle", sync |-> FALSE, data |-> <<>>, before |-> FileAbsent]
\* a SaveToFile(cachePath, data) about to run; sync when its caller waits for it
WriterStart(data, sync) ==
    [phase |-> "open", sync |-> sync, data |-> <<data>>, before |-> FileAbsent]

\* where a SaveToFile call ends: a caller that waits sees the outcome
writerEnd(w, outcome) ==
    IF w.sync THEN [w EXCEPT !.phase = outcome, !.before = FileAbsent] ELSE WriterIdle

\* lines 79-84: MarshalIndent, then os.WriteFile opens the file with O_TRUNC
SaveToFile_Open(r) ==
    LET w == writers[r]
        m == MarshalIndent(w.data[1])
    IN  /\ w.phase = "open"
        /\ \E opened \in BOOLEAN :
              IF m.err \/ ~opened
              THEN /\ writers' = [writers EXCEPT ![r] = writerEnd(w, "failed")]
                   /\ UNCHANGED cacheFile
              ELSE /\ writers' = [writers EXCEPT ![r] = [w EXCEPT !.phase = "write", !.data = m.doc,
                                                               !.before = cacheFile]]
                   /\ cacheFile' = FilePartial
        /\ UNCHANGED <<source, cfgVars, now, pc, mu, plcResult, sentBatches, pipeVars, reqVars,
                       cacheData, cacheTime, rlock, histVars>>

\* line 84: os.WriteFile writes the bytes and closes the file
SaveToFile_Write(r) ==
    LET w == writers[r]
    IN  /\ w.phase = "write"
        /\ \E written \in BOOLEAN :
              IF written
              THEN /\ writers' = [writers EXCEPT ![r] = writerEnd(w, "saved")]
                   /\ cacheFile' \in writtenOver(cacheFile, w.data)
              ELSE /\ writers' = [writers EXCEPT ![r] = writerEnd(w, "failed")]
                   /\ UNCHANGED cacheFile
        /\ UNCHANGED <<source, cfgVars, now, pc, mu, plcResult, sentBatches, pipeVars, reqVars,
                       cacheData, cacheTime, rlock, histVars>>

(***************************************************************************)
(* AnalyticsHandler.                                                       *)
(***************************************************************************)
InFlight(c) == pc[c] \notin {"idle", "returned"}

\* a request arrives and a goroutine starts its handler
Begin(c, o) ==
    /\ pc[c] = "idle"
    /\ requests < budget
    /\ requests' = requests + 1
    /\ reqId' = [reqId EXCEPT ![c] = requests + 1]
    /\ op' = [op EXCEPT ![c] = o]
    /\ ctxDone' = [ctxDone EXCEPT ![c] = FALSE]
    /\ response' = [response EXCEPT ![c] = NoResponse]
    /\ analytics' = [analytics EXCEPT ![c] = <<>>]
    /\ memStats' = [memStats EXCEPT ![c] = 0]
    /\ pc' = [pc EXCEPT ![c] = IF o = "RefreshCache" THEN "plc_lock" ELSE "cache"]
    /\ seenRefresh' = [seenRefresh EXCEPT ![c] =
          [last   |-> lastRefresh,
           during |-> {reqId[d] : d \in {d \in Callers : InFlight(d) /\ op[d] = "RefreshCache"}}]]
    /\ cancelledRun' = [cancelledRun EXCEPT ![c] = FALSE]
    /\ UNCHANGED <<source, cfgVars, now, mu, plcResult, sentBatches, pipeVars, cacheVars,
                   runs, published, lastRefresh>>

\* GetAnalytics lines 78-94 and getAnalyticsData lines 255-258: the bundle is
\* generated and saved to memory; GetAnalytics also starts the file writer
Store(c) ==
    /\ pc[c] = "store"
    /\ rlock = {}
    /\ \E data \in GenerateAnalytics(plcResult[c].Transactions, 0), alloc \in AllocValues :
          /\ memStats' = [memStats EXCEPT ![c] = alloc]
          /\ SaveToMemory(data, reqId[c], alloc)
          /\ response' = [response EXCEPT ![c] = OkResponse(data, "fresh")]
          /\ analytics' = [analytics EXCEPT ![c] = <<data>>]
          /\ published' = published \cup {[req |-> reqId[c], data |-> data,
                                         cancelled |-> cancelledRun[c]]}
          /\ writers' = IF op[c] = "GetAnalytics"
                        THEN [writers EXCEPT ![reqId[c]] = WriterStart(data, FALSE)]
                        ELSE writers
    /\ pc' = [pc EXCEPT ![c] = "idle"]
    /\ UNCHANGED <<source, cfgVars, now, mu, plcResult, sentBatches, pipeVars, op, reqId,
                   requests, ctxDone, rlock, cacheFile, runs, lastRefresh, seenRefresh, cancelledRun>>

\* PreprocessAndCache lines 212-217: the bundle is generated and SaveToFile called
PreprocessAndCache_Save(c) ==
    /\ pc[c] = "rc_save"
    /\ \E data \in GenerateAnalytics(plcResult[c].Transactions, 0) :
          /\ analytics' = [analytics EXCEPT ![c] = <<data>>]
          /\ published' = published \cup {[req |-> reqId[c], data |-> data,
                                         cancelled |-> cancelledRun[c]]}
          /\ writers' = [writers EXCEPT ![reqId[c]] = WriterStart(data, TRUE)]
    /\ pc' = [pc EXCEPT ![c] = "rc_wait"]
    /\ UNCHANGED <<source, cfgVars, now, mu, plcResult, sentBatches, pipeVars, op, reqId, memStats,
                   requests, ctxDone, response, cacheData, cacheTime, rlock, cacheFile,
                   runs, lastRefresh, seenRefresh, cancelledRun>>

\* PreprocessAndCache lines 217-222 and RefreshCache lines 228-234: a failed
\* save is logged only; the refresh reports success
RefreshCache_Return(c) ==
    /\ pc[c] = "rc_wait"
    /\ writers[reqId[c]].phase \in {"saved", "failed"}
    /\ writers' = [writers EXCEPT ![reqId[c]] = WriterIdle]
    /\ response' = [response EXCEPT ![c] = [kind |-> "refreshed", stats |-> plcResult[c].Stats]]
    /\ lastRefresh' = reqId[c]
    /\ pc' = [pc EXCEPT ![c] = "idle"]
    /\ UNCHANGED <<source, cfgVars, now, mu, plcResult, sentBatches, pipeVars, op, reqId, memStats,
                   requests, ctxDone, analytics, cacheData, cacheTime, rlock, cacheFile,
                   runs, published, seenRefresh, cancelledRun>>

(***************************************************************************)
(* The environment: the request's context ends (deadline or client gone),  *)
(* time passes, and the CSV file grows.                                    *)
(***************************************************************************)
Cancel(c) ==
    /\ InFlight(c)
    /\ ~ctxDone[c]
    /\ ctxDone' = [ctxDone EXCEPT ![c] = TRUE]
    /\ cancelledRun' = [cancelledRun EXCEPT ![c] = pc[c] = "plc_run"]
    /\ UNCHANGED <<source, cfgVars, now, pc, mu, plcResult, sentBatches, pipeVars, op, reqId,
                   memStats, requests, analytics, response, cacheVars,
                   runs, published, lastRefresh, seenRefresh>>

Tick ==
    /\ now < MaxClock
    /\ now' = now + 1
    /\ UNCHANGED <<source, cfgVars, pc, mu, plcResult, sentBatches, pipeVars, reqVars,
                   cacheVars, histVars>>

AppendRow ==
    /\ source.exists
    /\ source.appended < MaxAppends
    /\ Len(source.lines) - 1 < MaxRows
    /\ source' = [source EXCEPT !.lines = Append(@, GoodRow(Len(source.lines))),
                                !.appended = @ + 1]
    /\ UNCHANGED <<cfgVars, now, pc, mu, plcResult, sentBatches, pipeVars, reqVars,
                   cacheVars, histVars>>

(***************************************************************************)
(* Specifications.                                                         *)
(***************************************************************************)
RECURSIVE KindSeqs(_)
\* the sequences of row kinds of length at most n
KindSeqs(n) ==
    IF n = 0 THEN {<<>>}
    ELSE KindSeqs(n - 1) \cup
         {Append(k, x) : k \in {k \in KindSeqs(n - 1) : Len(k) = n - 1}, x \in RowKinds}

MissingSource == [exists |-> FALSE, lines |-> <<>>, appended |-> 0]
EmptySource == [exists |-> TRUE, lines |-> <<>>, appended |-> 0]

\* the data rows that csv.Reader.Read returns without an error
sourceRecords(lines) ==
    IF lines = <<>> THEN <<>>
    ELSE SelectSeq(Tail(lines), LAMBDA record : Len(record) = Len(lines[1]))

\* scripts/preprocess.go: the cache files that PreprocessAndCache can have
\* written from the source before the server starts
Preprocessed(src) ==
    {FileDoc(MarshalIndent(data).doc) :
        data \in {d \in GenerateAnalytics(parseRows(sourceRecords(src.lines)), 0) :
                     ~MarshalIndent(d).err}}

InitCommon ==
    /\ now = 0
    /\ requests = 0
    /\ reqId = [c \in Callers |-> 0]
    /\ ctxDone = [c \in Callers |-> FALSE]
    /\ mu = 0
    /\ reader = [c \in Callers |-> ReaderOff]
    /\ batchChan = [c \in Callers |-> ChanEmpty]
    /\ batchCount = [c \in Callers |-> <<>>]
    /\ workers = [c \in Callers |-> [w \in WorkerIds |-> WorkerOff]]
    /\ resultChan = [c \in Callers |-> ChanEmpty]
    /\ collector = [c \in Callers |-> CollectorOff]
    /\ plcResult = [c \in Callers |-> NoResult]
    /\ sentBatches = [c \in Callers |-> <<>>]
    /\ cacheData = Nil
    /\ cacheTime = 0
    /\ rlock = {}
    /\ writers = [r \in Requests |-> WriterIdle]
    /\ analytics = [c \in Callers |-> <<>>]
    /\ response = [c \in Callers |-> NoResponse]
    /\ memStats = [c \in Callers |-> 0]
    /\ runs = {}
    /\ published = IF cacheFile.kind = "doc"
                   THEN {[req |-> 0, data |-> cacheFile.doc[1], cancelled |-> FALSE]} ELSE {}
    /\ lastRefresh = 0
    /\ seenRefresh = [c \in Callers |-> [last |-> 0, during |-> {}]]
    /\ cancelledRun = [c \in Callers |-> FALSE]

\* The server with one request in flight at a time: goroutine 1 serves the
\* requests one after the other, while time passes and the CSV file grows.
Init ==
    /\ source = MakeSource(<<"good">>)
    /\ batchSize = 1
    /\ workerPool = 1
    /\ budget = MaxRequests
    /\ query = NoQuery
    /\ cacheFile = FileAbsent
    /\ pc = [c \in Callers |-> IF c = 1 THEN "idle" ELSE "off"]
    /\ op = [c \in Callers |-> "GetAnalytics"]
    /\ InitCommon

Pipeline ==
    \/ \E c \in Callers : ProcessLargeCSV_Start(c)
    \/ \E c \in Callers : readBatches_Read(c)
    \/ \E c \in Callers : readBatches_Send(c)
    \/ \E c \in Callers : readBatches_EOF(c)
    \/ \E c \in Callers : readBatches_Finish(c)
    \/ \E c \in Callers, w \in WorkerIds : processBatchWorker_Recv(c, w)
    \/ \E c \in Callers, w \in WorkerIds : processBatchWorker_Exit(c, w)
    \/ \E c \in Callers, w \in WorkerIds : processBatchWorker_Process(c, w)
    \/ \E c \in Callers, w \in WorkerIds : processBatchWorker_Send(c, w)
    \/ \E c \in Callers : ProcessLargeCSV_CloseResults(c)
    \/ \E c \in Callers : ProcessLargeCSV_Collect(c)
    \/ \E c \in Callers : ProcessLargeCSV_Finish(c)
    \/ \E c \in Callers : ProcessLargeCSV_Return(c)

Cancellation ==
    \/ \E c \in Callers : Cancel(c)
    \/ \E c \in Callers : readBatches_Cancelled(c)
    \/ \E c \in Callers : readBatches_SendCancelled(c)

Handlers ==
    \/ \E c \in Callers, o \in Ops : Begin(c, o)
    \/ \E c \in Callers : LoadFromCache_Check(c)
    \/ \E c \in Callers : LoadFromCache_Finish(c)
    \/ \E c \in Callers : LoadFromFile_Read(c)
    \/ \E c \in Callers : LoadFromFile_Save(c)
    \/ \E c \in Callers : GetAnalytics_FileHit(c)
    \/ \E c \in Callers : Store(c)
    \/ \E c \in Callers : PreprocessAndCache_Save(c)
    \/ \E c \in Callers : RefreshCache_Return(c)
    \/ \E r \in Requests : SaveToFile_Open(r)
    \/ \E r \in Requests : SaveToFile_Write(r)

Next ==
    \/ Handlers
    \/ Pipeline
    \/ Tick
    \/ AppendRow

Spec == Init /\ [][Next]_vars

\* The server with its requests served one after the other, each under a
\* deadline that can pass and a client that can go away.
InitCancel ==
    /\ source \in {MakeSource(<<"good", "good">>), MakeSource(<<"utf8", "good">>)}
    /\ batchSize = 1
    /\ workerPool = 1
    /\ budget = MaxRequests - 1
    /\ query = NoQuery
    /\ cacheFile = FileAbsent
    /\ pc = [c \in Callers |-> IF c = 1 THEN "idle" ELSE "off"]
    /\ op = [c \in Callers |-> "GetAnalytics"]
    /\ InitCommon

NextCancel ==
    \/ Handlers
    \/ Pipeline
    \/ Cancellation

SpecCancel == InitCancel /\ [][NextCancel]_vars

\* The server with the requests of NumCallers clients in flight together, one
\* request each, started with or without the cache file of the preprocess script.
InitRace ==
    /\ source = MakeSource(<<"good">>)
    /\ batchSize = 1
    /\ workerPool = 1
    /\ budget = NumCallers
    /\ query = NoQuery
    /\ cacheFile \in {FileAbsent} \cup Preprocessed(source)
    /\ pc = [c \in Callers |-> "idle"]
    /\ op = [c \in Callers |-> "GetAnalytics"]
    /\ InitCommon

NextRace ==
    \/ Handlers
    \/ Pipeline
    \/ AppendRow

SpecRace == InitRace /\ [][NextRace]_vars

\* One call of ProcessLargeCSV, on any source and configuration.
InitPipe ==
    /\ source \in {MakeSource(k) : k \in KindSeqs(MaxRows)} \cup {MissingSource, EmptySource}
    /\ batchSize \in 1..MaxBatchSize
    /\ workerPool \in 1..MaxWorkers
    /\ budget = 0
    /\ query = NoQuery
    /\ cacheFile = FileAbsent
    /\ pc = [c \in Callers |-> IF c = 1 THEN "plc_lock" ELSE "idle"]
    /\ op = [c \in Callers |-> "ProcessLargeCSV"]
    /\ InitCommon

NextPipe ==
    \/ Pipeline
    \/ Cancellation

SpecPipe == InitPipe /\ [][NextPipe]_vars

(***************************************************************************)
(* One ProcessLargeCSV call on a source with more rows than either channel *)
(* holds, in batches of one row, so that the reader and the workers can    *)
(* block on a full channel.  Every goroutine that can take a step          *)
(* eventually takes one: the reader, each worker, the closer and the       *)
(* calling goroutine.  Nothing obliges the context to be cancelled.        *)
(***************************************************************************)
LiveRows == BatchChanCap + 1 + MaxWorkers

InitLive ==
    /\ source = MakeSource([i \in 1..LiveRows |-> "good"])
    /\ batchSize = 1
    /\ workerPool \in 1..MaxWorkers
    /\ budget = 0
    /\ query = NoQuery
    /\ cacheFile = FileAbsent
    /\ pc = [c \in Callers |-> IF c = 1 THEN "plc_lock" ELSE "idle"]
    /\ op = [c \in Callers |-> "ProcessLargeCSV"]
    /\ InitCommon

\* the Go scheduler: a goroutine that can take a step eventually takes one
GoroutineFairness ==
    /\ \A c \in Callers :
          WF_vars(\/ readBatches_Read(c) \/ readBatches_Send(c) \/ readBatches_EOF(c)
                  \/ readBatches_Finish(c) \/ readBatches_Cancelled(c)
                  \/ readBatches_SendCancelled(c))
    /\ \A c \in Callers, w \in WorkerIds :
          /\ WF_vars(\/ processBatchWorker_Recv(c, w) \/ processBatchWorker_Exit(c, w)
                     \/ processBatchWorker_Send(c, w))
          \* weak fairness of processBatchWorker_Process(c, w), which is enabled
          \* exactly when the worker holds a batch it has not looked at and
          \* whose every step leaves that position
          /\ []<>~(pc[c] = "plc_run" /\ workers[c][w].pc = "check")
    /\ \A c \in Callers : WF_vars(ProcessLargeCSV_CloseResults(c))
    /\ \A c \in Callers :
          WF_vars(\/ ProcessLargeCSV_Start(c) \/ ProcessLargeCSV_Collect(c)
                  \/ ProcessLargeCSV_Finish(c) \/ ProcessLargeCSV_Return(c))

SpecLive == InitLive /\ [][NextPipe]_vars /\ GoroutineFairness

(***************************************************************************)
(* Two ProcessLargeCSV calls that contend for globalProcessingMu, on a     *)
(* source that may be missing, empty, or hold rows, each with a context    *)
(* that may be cancelled.                                                  *)
(***************************************************************************)
InitLock ==
    /\ source \in {MakeSource(k) : k \in KindSeqs(MaxBatchSize)} \cup {MissingSource, EmptySource}
    /\ batchSize = 1
    /\ workerPool = 1
    /\ budget = 0
    /\ query = NoQuery
    /\ cacheFile = FileAbsent
    /\ pc = [c \in Callers |-> "plc_lock"]
    /\ op = [c \in Callers |-> "ProcessLargeCSV"]
    /\ InitCommon

SpecLock == InitLock /\ [][NextPipe]_vars /\ GoroutineFairness

(***************************************************************************)
(* The aggregate views: one getAnalyticsData call whose pipeline reads a   *)
(* source of sales records and whose bundle GenerateAnalytics computes.    *)
(* The records differ in the fields the four views group and sum by; a     *)
(* field may hold the "|" that generateCountryRevenue builds its key with. *)
(***************************************************************************)
\* a data row of the twelve columns ParseCSVRow reads, with transaction date
\* 2023-month-15
RecordRow(country, name, productId, region, month, total, quantity, stock) ==
    <<Str("1"),
      <<"2", "0", "2", "3", "-">> \o Pad2(month) \o <<"-", "1", "5">>,
      Str("A"), country, region, productId, name, Str("A"),
      Str("1"), Pad2(quantity), Pad2(total), Pad2(stock)>>

RecordRows ==
    {RecordRow(Str("X"), Str("P"), Str("A"), Str("P"), 1, 10, 1, 1),
     RecordRow(Str("X"), Str("P"), Str("A"), Str("P"), 2, 20, 2, 2),
     RecordRow(Str("Y"), Str("Q"), Str("B"), Str("Q"), 1, 10, 1, 0),
     RecordRow(Str("Y"), Str("Q"), Str("B"), Str("Q"), 2, 30, 3, 3),
     RecordRow(<<"X", "|">>, Str("P"), Str("A"), Str("P"), 1, 10, 1, 1),
     RecordRow(Str("X"), <<"|", "P">>, <<"A", "B">>, Str("Q"), 1, 20, 2, 2)}

RECURSIVE RowSeqs(_)
\* the sequences of record rows of length at most n
RowSeqs(n) ==
    IF n = 0 THEN {<<>>}
    ELSE RowSeqs(n - 1) \cup
         {Append(k, x) : k \in {k \in RowSeqs(n - 1) : Len(k) = n - 1}, x \in RecordRows}

\* one record more than the longer of the two truncations keeps, each with a
\* product, a product name and a region of its own; two products have the
\* quantity at which the top 20 is cut and two regions the revenue at which
\* the top 30 is cut
ManyRows ==
    [i \in 1..(TopRegionsLimit + 1) |->
        RecordRow(Str("X"), Pad2(i), Pad2(i), Pad2(i), 1,
                  IF i = 1 THEN 2 ELSE i,
                  IF i = TopRegionsLimit - TopProductsLimit + 1 THEN i + 1 ELSE i,
                  0)]

RecordSource(rows) == [exists |-> TRUE, appended |-> 0, lines |-> <<Header>> \o rows]

InitAgg ==
    /\ source \in {RecordSource(rows) : rows \in RowSeqs(MaxRecords)} \cup {RecordSource(ManyRows)}
    /\ batchSize = MaxRecords
    /\ workerPool = 1
    /\ budget = 0
    /\ query = NoQuery
    /\ cacheFile = FileAbsent
    /\ pc = [c \in Callers |-> IF c = 1 THEN "plc_lock" ELSE "off"]
    /\ op = [c \in Callers |-> "getAnalyticsData"]
    /\ InitCommon

NextAgg ==
    \/ Pipeline
    \/ \E c \in Callers : Store(c)

SpecAgg == InitAgg /\ [][NextAgg]_vars

(***************************************************************************)
(* The row parser: one ProcessLargeCSV call on a source of one data row,   *)
(* whose fields are present and valid, empty, blank, or invalid.           *)
(***************************************************************************)
FieldRow(id, date, price, quantity, total, stock) ==
    <<id, date, Str("A"), Str("X"), Str("P"), Str("A"), Str("P"), Str("A"),
      price, quantity, total, stock>>

FieldRows ==
    LET IdFields       == {Str("1"), <<>>, Str(" ")}
        DateFields     == {<<"2", "0", "2", "3", "-", "0", "1", "-", "1", "5">>,
                           <<"0", "1", "/", "1", "5", "/", "2", "0", "2", "3">>,
                           <<"2", "0", "2", "3", "-", "1", "3", "-", "0", "1">>,
                           <<>>}
        PriceFields    == {<<"1", ".", "5">>, <<>>, <<"-", "1">>, <<"I", "n", "f">>}
        QuantityFields == {Str("1"), <<>>, Str("0"), <<"-", "1">>}
        TotalFields    == {<<"1", "0">>, <<>>, <<"-", "1">>}
        StockFields    == {Str("0"), <<>>, <<"-", "1">>}
    IN  {FieldRow(id, date, price, quantity, total, stock) :
            id \in IdFields, date \in DateFields, price \in PriceFields,
            quantity \in QuantityFields, total \in TotalFields, stock \in StockFields}

\* a file whose header and only data row lack the last column
ElevenColumns ==
    [exists |-> TRUE, appended |-> 0,
     lines  |-> <<SubSeq(Header, 1, 11), SubSeq(GoodRow(1), 1, 11)>>]

InitParse ==
    /\ source \in {RecordSource(<<row>>) : row \in FieldRows} \cup {ElevenColumns}
    /\ batchSize = 1
    /\ workerPool = 1
    /\ budget = 0
    /\ query = NoQuery
    /\ cacheFile = FileAbsent
    /\ pc = [c \in Callers |-> IF c = 1 THEN "plc_lock" ELSE "off"]
    /\ op = [c \in Callers |-> "ProcessLargeCSV"]
    /\ InitCommon

SpecParse == InitParse /\ [][Pipeline]_vars

(***************************************************************************)
(* GetCountryRevenue: one request whose analytics getAnalyticsData         *)
(* computes from the source and whose page the limit and offset of its URL *)
(* cut out of the revenue view.                                            *)
(***************************************************************************)
\* getIntQueryParam(r, "limit", 100) and the cap of line 103
DefaultLimit == 100
MaxLimit == 1000

\* lines 296-303
getIntQueryParam(value, defaultValue) ==
    IF value # <<>> /\ Atoi(value).ok /\ Atoi(value).v >= 0 THEN Atoi(value).v
    ELSE defaultValue

\* lines 99-134: what the handler writes once getAnalyticsData has returned
\* view; a slice expression with 0 <= start <= end <= len(view) violated panics
paginate(view, q) ==
    LET limit0 == getIntQueryParam(q.limit, DefaultLimit)
        offset == getIntQueryParam(q.offset, 0)
        limit  == IF limit0 > MaxLimit THEN MaxLimit ELSE limit0
        total  == Len(view)
        end0   == WrapAdd(offset, limit)
        start  == IF offset >= total THEN total ELSE offset
        end    == IF offset >= total THEN total ELSE IF end0 > total THEN total ELSE end0
    IN  IF 0 <= start /\ start <= end /\ end <= total
        THEN [kind |-> "page", data |-> SubSeq(view, start + 1, end), count |-> end - start,
              total |-> total, limit |-> limit, offset |-> offset, has_more |-> end < total]
        ELSE [kind |-> "panic"]

\* lines 106-134
GetCountryRevenue_Respond(c) ==
    /\ pc[c] = "idle"
    /\ op[c] = "getAnalyticsData"
    /\ response[c].kind \in {"ok", "error"}
    /\ response' = [response EXCEPT ![c] =
          IF @.kind = "ok" THEN paginate(@.data.CountryRevenue, query) ELSE @]
    /\ pc' = [pc EXCEPT ![c] = "returned"]
    /\ UNCHANGED <<source, cfgVars, now, mu, plcResult, sentBatches, pipeVars, op, reqId, memStats,
                   requests, ctxDone, analytics, cacheVars, histVars>>

\* what a client may put after limit= and offset=: nothing, a word, a negative
\* number, small numbers, a number above the cap, the largest int and the
\* number after it; sources whose revenue view has no row, one, two and three
InitPage ==
    LET QueryValues ==
            {<<>>, Str("A"), <<"-", "1">>, Str("0"), Str("1"), Str("2"),
             <<"1", "5", "0", "0">>,
             <<"1", "0", "7", "3", "7", "4", "1", "8", "2", "3">>,
             <<"1", "0", "7", "3", "7", "4", "1", "8", "2", "4">>}
        PagedRows ==
            <<RecordRow(Str("X"), Str("P"), Str("A"), Str("P"), 1, 10, 1, 1),
              RecordRow(Str("Y"), Str("Q"), Str("B"), Str("Q"), 1, 20, 1, 0),
              RecordRow(Str("Z"), Str("R"), Str("C"), Str("R"), 1, 30, 1, 0)>>
    IN  /\ source \in {RecordSource(SubSeq(PagedRows, 1, n)) : n \in 0..MaxRecords}
        /\ batchSize = MaxRecords
        /\ workerPool = 1
        /\ budget = 0
        /\ query \in [limit : QueryValues, offset : QueryValues]
        /\ cacheFile = FileAbsent
        /\ pc = [c \in Callers |-> IF c = 1 THEN "plc_lock" ELSE "off"]
        /\ op = [c \in Callers |-> "getAnalyticsData"]
        /\ InitCommon

NextPage ==
    \/ Pipeline
    \/ \E c \in Callers : Store(c)
    \/ \E c \in Callers : GetCountryRevenue_Respond(c)

SpecPage == InitPage /\ [][NextPage]_vars

(***************************************************************************)
(* Properties of ProcessLargeCSV (SpecPipe).                               *)
(***************************************************************************)
\* a call that has returned a result and no error
Returned(c) == plcResult[c].returned /\ ~plcResult[c].err

RECURSIVE recordsOf(_, _, _)
\* the transactions of the first n delivered batches whose index is in arrived
recordsOf(sent, arrived, n) ==
    IF n = 0 THEN <<>>
    ELSE recordsOf(sent, arrived, n - 1)
           \o (IF (n - 1) \in arrived THEN parseRows(sent[n]) ELSE <<>>)

\* C1: with no cancellation, whatever the batch size, the number of workers and
\* the order in which the workers finish, the transactions ProcessLargeCSV
\* returns are the data rows of the source that parse, in the order of the
\* source: none duplicated, lost or moved.
C1_SourceOrder ==
    \A c \in Callers :
        (Returned(c) /\ ~ctxDone[c]) =>
            plcResult[c].Transactions = parseRows(sourceRecords(source.lines))

\* a run of two workers on three rows in batches of one, a row of which failed
\* to parse, has returned uncancelled
C1_Witness ==
    /\ Returned(1) /\ ~ctxDone[1]
    /\ workerPool = 2 /\ batchSize = 1
    /\ Len(source.lines) = 4
    /\ Len(plcResult[1].Transactions) = 2
    /\ plcResult[1].Stats.ErrorCount = 1

\* C7: whichever batches fail to reach the collector, ProcessLargeCSV returns
\* no error once the source could be opened; the transactions it returns are
\* those of the batches that arrived, in increasing batch index; and every
\* index of 0..count-1 that did not arrive is reported missing.
C7_GapTolerance ==
    \A c \in Callers :
        plcResult[c].returned =>
            /\ plcResult[c].err <=> (~source.exists \/ source.lines = <<>>)
            /\ ~plcResult[c].err =>
                  LET log == plcResult[c].log
                  IN  /\ log.totalBatches <= Len(sentBatches[c])
                      /\ log.completed \subseteq 0..(log.totalBatches - 1)
                      /\ plcResult[c].Transactions =
                            recordsOf(sentBatches[c], log.completed, log.totalBatches)
                      /\ log.missing = (0..(log.totalBatches - 1)) \ log.completed

\* a run has returned transactions although a batch before one that arrived is missing
C7_Witness ==
    /\ Returned(1)
    /\ plcResult[1].Transactions # <<>>
    /\ \E i \in plcResult[1].log.missing, j \in plcResult[1].log.completed : i < j

RECURSIVE failuresOf(_, _, _)
\* the number of rows that failed to parse in the first n delivered batches
\* whose index is in arrived
failuresOf(sent, arrived, n) ==
    IF n = 0 THEN 0
    ELSE failuresOf(sent, arrived, n - 1)
           + (IF (n - 1) \in arrived THEN Len(sent[n]) - Len(parseRows(sent[n])) ELSE 0)

\* the source cannot be opened, or its header cannot be read
SourceUnreadable == ~source.exists \/ source.lines = <<>>

C11_WitnessError == plcResult[1].returned /\ plcResult[1].err /\ SourceUnreadable

(***************************************************************************)
(* Properties of concurrent requests (SpecRace).                           *)
(***************************************************************************)
\* the pipeline of c's ProcessLargeCSV call exists: the lock is taken and not
\* yet released
PipelineActive(c) == pc[c] \in {"plc_run", "plc_return"}

\* C2: at every moment at most one ProcessLargeCSV pipeline is active, however
\* many GetAnalytics, getAnalyticsData and RefreshCache callers there are; the
\* others wait at the lock.
C2_OnePipeline ==
    \A c, d \in Callers : (PipelineActive(c) /\ PipelineActive(d)) => c = d

\* a caller waits at the lock while the pipeline of another runs
C2_Witness ==
    \E c, d \in Callers :
        /\ pc[c] = "plc_run" /\ reader[c].pc # "done"
        /\ pc[d] = "plc_lock"

\* the runs of ProcessLargeCSV made by refresh request r and by the requests
\* begun while r was in flight
runsAround(r) == {run \in runs : run.req = r \/ r \in run.during}

\* C3: a refresh and the GetAnalytics, getAnalyticsData and RefreshCache calls
\* begun while it is in flight run ProcessLargeCSV once between them.
C3_SingleRun == \A r \in Requests : Cardinality(runsAround(r)) <= 1

\* the content of a bundle, CacheHit apart
content(data) == [data EXCEPT !.CacheHit = FALSE]

\* the complete snapshots: what a run computed, as computed or as its document holds it
Snapshots == {content(p.data) : p \in published} \cup {content(jsonDocument(p.data)) : p \in published}

\* C4: a GetAnalytics or getAnalyticsData call that returns a bundle returns a
\* complete snapshot that one run computed, also when it runs beside a refresh
\* or another run: never a mix of two runs, never the content of a file that
\* is written in part.
C4_CompleteSnapshot ==
    \A c \in Callers :
        response[c].kind = "ok" => content(response[c].data) \in Snapshots

\* a get begun while a refresh was in flight has returned a bundle from the
\* file, two different snapshots having been computed
C4_Witness ==
    \E c \in Callers :
        /\ response[c].kind = "ok" /\ response[c].from = "file"
        /\ seenRefresh[c].during # {}
        /\ \E p, q \in published : content(p.data) # content(q.data)

(***************************************************************************)
(* Properties of the cache tiers (Spec, SpecCancel).                       *)
(***************************************************************************)
\* the complete snapshots of the runs of request r and of later requests
SnapshotsSince(r) ==
    {content(p.data) : p \in {p \in published : p.req >= r}}
        \cup {content(jsonDocument(p.data)) : p \in {p \in published : p.req >= r}}

\* C5: a GetAnalytics or getAnalyticsData call begun after a RefreshCache has
\* returned successfully returns the snapshot of that refresh or of a later
\* run, never one computed before the refresh.
C5_RefreshVisible ==
    \A c \in Callers :
        (response[c].kind = "ok" /\ seenRefresh[c].last > 0) =>
            content(response[c].data) \in SnapshotsSince(seenRefresh[c].last)

\* the transactions of the rows the source held when the server started
InitialRecords ==
    Len(parseRows(sourceRecords(SubSeq(source.lines, 1, Len(source.lines) - source.appended))))

\* the snapshots that a run cancelled while its pipeline was running computed
\* from fewer rows than the source held when the server started
PartialSnapshots ==
    {p.data : p \in {p \in published : p.cancelled /\ p.data.TotalRecords < InitialRecords}}

\* C6: the snapshot that a run computes from a part of the source rows, its
\* context having ended while its pipeline was running, is stored neither in
\* the memory slot nor in the durable file.
C6_NoPartialStored ==
    \A data \in PartialSnapshots :
        /\ cacheData # Nil => content(cacheData.data) # content(data)
        /\ cacheFile.kind = "doc" => content(cacheFile.doc[1]) # content(jsonDocument(data))

\* a get request is past the memory tier / past the file tier / in the pipeline tier
GetRequest(c) == op[c] \in {"GetAnalytics", "getAnalyticsData"}
PastMemory(c) == pc[c] \in {"file", "file_save", "file_hit", "plc_lock", "plc_run", "plc_return", "store"}
InPipeline(c) == pc[c] \in {"plc_lock", "plc_run", "plc_return", "store"}

\* the tiers are consulted in the order memory, file, pipeline, and a hit ends the search
TierOrder ==
    \A c \in Callers :
        GetRequest(c) =>
            /\ PastMemory(c) => memStats[c] # 0
            /\ InPipeline(c) => analytics[c] = <<>>
            /\ (response[c].kind = "ok" /\ response[c].from \in {"memory", "file"}) =>
                   \A run \in runs : run.req # reqId[c]

C9_EvictAboveCeiling ==
    [][\A c \in Callers :
          (/\ pc[c] \in {"cache", "cache_mem"}
           /\ pc'[c] \notin {"cache", "cache_mem"}
           /\ memoryExceeded(memStats'[c])) =>
              (pc'[c] = "file" /\ cacheData' = Nil)]_vars

\* C10: the bundle LoadFromFile returns is equal in content to a snapshot
\* that was given to SaveToFile.
C10_RoundTrip ==
    \A c \in Callers :
        pc[c] \in {"file_save", "file_hit"} =>
            content(analytics[c][1]) \in {content(p.data) : p \in published}

\* the cache file is missing or does not hold a complete document
FileUnreadable == cacheFile.kind # "doc"

\* C12: a GetAnalytics or getAnalyticsData whose LoadFromFile finds the file
\* missing or not decodable leaves the memory slot, snapshot and timestamp, as
\* it was, has no response yet, and goes on to ProcessLargeCSV.
C12_FileMissFallsThrough ==
    [][\A c \in Callers :
          (pc[c] = "file" /\ pc'[c] # "file" /\ FileUnreadable) =>
              /\ cacheData' = cacheData
              /\ cacheTime' = cacheTime
              /\ response'[c] = response[c]
              /\ response'[c] = NoResponse
              /\ pc'[c] = "plc_lock"]_vars

\* a get that could not decode the half-written cache file waits for the
\* pipeline while the memory slot still holds the snapshot stored before
C12_Witness ==
    \E c \in Callers :
        /\ pc[c] = "plc_lock"
        /\ op[c] \in {"GetAnalytics", "getAnalyticsData"}
        /\ cacheFile.kind \in {"partial", "garbage"}
        /\ cacheData # Nil

\* C13: a SaveToFile that fails leaves the memory slot as it was and the
\* durable file with the content it had before the call: what LoadFromFile
\* reads after the failure is what it read before the write began.  The
\* writer is the one RefreshCache waits for, and no other writer is at work.
C13_FailedSaveKeepsFile ==
    [][\A r \in Requests :
          (/\ writers[r].phase = "write"
           /\ writers'[r].phase = "failed"
           /\ \A q \in Requests \ {r} : writers[q].phase = "idle") =>
              /\ cacheData' = cacheData
              /\ cacheTime' = cacheTime
              /\ readCacheFile(cacheFile') = readCacheFile(writers[r].before)]_vars

(***************************************************************************)
(* Properties of the aggregate views (SpecAgg).                            *)
(***************************************************************************)
\* c's call has returned the bundle it generated from the pipeline's records
FreshBundle(c) == response[c].kind = "ok" /\ response[c].from = "fresh"

RECURSIVE SumSeq(_)
SumSeq(s) == IF s = <<>> THEN 0 ELSE FAdd(SumSeq(SubSeq(s, 1, Len(s) - 1)), s[Len(s)])

\* the sum of Val over the records of T that Keep selects, and their number
Total(T, Keep(_), Val(_)) ==
    SumSeq([i \in 1..Len(T) |-> IF Keep(T[i]) THEN Val(T[i]) ELSE 0])

Count(T, Keep(_)) == Cardinality({i \in 1..Len(T) : Keep(T[i])})

\* no row of V has a greater key than a row before it
NonIncreasing(V, Key(_)) ==
    \A j, k \in 1..Len(V) : j < k => ~FGreater(Key(V[k]), Key(V[j]))

Min(a, b) == IF a < b THEN a ELSE b

\* C14: the revenue view has exactly one row for every (country, product
\* name) pair of the records and no other row, whatever the number of pairs;
\* a row's total revenue is the sum of the total prices and its transaction
\* count the number of the records of its pair; no row has a greater total
\* revenue than a row before it.
C14_RevenueByGroup ==
    \A c \in Callers :
        FreshBundle(c) =>
            LET T     == plcResult[c].Transactions
                V     == response[c].data.CountryRevenue
                pairs == {<<T[i].Country, T[i].ProductName>> : i \in 1..Len(T)}
            IN  /\ Len(V) = Cardinality(pairs)
                /\ {<<V[j].Country, V[j].ProductName>> : j \in 1..Len(V)} = pairs
                /\ \A j \in 1..Len(V) :
                      /\ V[j].TotalRevenue =
                            Total(T, LAMBDA t : t.Country = V[j].Country
                                                  /\ t.ProductName = V[j].ProductName,
                                     LAMBDA t : t.TotalPrice)
                      /\ V[j].TransactionCount =
                            Count(T, LAMBDA t : t.Country = V[j].Country
                                                  /\ t.ProductName = V[j].ProductName)
                /\ NonIncreasing(V, LAMBDA row : row.TotalRevenue)

\* C15: the product view has min(20, number of product ids) rows, each of a
\* product id of its own; a row's purchase count is the sum of the quantities
\* of the records of its product id; no row has a greater purchase count than
\* a row before it; and no product id left out has a greater summed quantity
\* than one in the view.
C15_TopByFrequency ==
    \A c \in Callers :
        FreshBundle(c) =>
            LET T        == plcResult[c].Transactions
                V        == response[c].data.TopProducts
                ids      == {T[i].ProductID : i \in 1..Len(T)}
                included == {V[j].ProductID : j \in 1..Len(V)}
                sold(id) == Total(T, LAMBDA t : t.ProductID = id, LAMBDA t : t.Quantity)
            IN  /\ Len(V) = Min(TopProductsLimit, Cardinality(ids))
                /\ Cardinality(included) = Len(V)
                /\ included \subseteq ids
                /\ \A j \in 1..Len(V) : V[j].PurchaseCount = sold(V[j].ProductID)
                /\ NonIncreasing(V, LAMBDA row : row.PurchaseCount)
                /\ \A id \in ids \ included : \A j \in 1..Len(V) : sold(id) <= V[j].PurchaseCount

\* the bundle of a source of more than 20 products has 20 product rows, and a
\* product left out sold as many items as the last one in the view
C15_Witness ==
    /\ FreshBundle(1)
    /\ Cardinality({plcResult[1].Transactions[i].ProductID :
                       i \in 1..Len(plcResult[1].Transactions)}) > TopProductsLimit
    /\ Len(response[1].data.TopProducts) = TopProductsLimit
    /\ \E i \in 1..Len(plcResult[1].Transactions) :
          LET t == plcResult[1].Transactions[i]
              V == response[1].data.TopProducts
          IN  /\ \A j \in 1..Len(V) : V[j].ProductID # t.ProductID
              /\ t.Quantity = V[Len(V)].PurchaseCount

\* the greatest element of a non-empty set of integers
Max(S) == CHOOSE x \in S : \A y \in S : y <= x

\* C16: the stock a product row reports is the greatest stock quantity among
\* the records of its product id, in whatever order the records come.
C16_StockIsMaximum ==
    \A c \in Callers :
        FreshBundle(c) =>
            LET T == plcResult[c].Transactions
                V == response[c].data.TopProducts
            IN  \A j \in 1..Len(V) :
                    V[j].StockQuantity =
                        Max({T[i].StockQuantity :
                                i \in {i \in 1..Len(T) : T[i].ProductID = V[j].ProductID}})

\* C17: the monthly view has exactly one row for every YYYY-MM month of the
\* records' transaction dates and no other row; a row's sales volume is the
\* sum of the total prices and its item count the sum of the quantities of
\* the records of its month; every row's month is less than the next row's.
C17_MonthlyBuckets ==
    \A c \in Callers :
        FreshBundle(c) =>
            LET T      == plcResult[c].Transactions
                V      == response[c].data.MonthlySales
                months == {GetMonth(T[i]) : i \in 1..Len(T)}
            IN  /\ Len(V) = Cardinality(months)
                /\ {V[j].Month : j \in 1..Len(V)} = months
                /\ \A j \in 1..Len(V) :
                      /\ Len(V[j].Month) = 7 /\ V[j].Month[5] = "-"
                      /\ V[j].SalesVolume =
                            Total(T, LAMBDA t : GetMonth(t) = V[j].Month, LAMBDA t : t.TotalPrice)
                      /\ V[j].ItemCount =
                            Total(T, LAMBDA t : GetMonth(t) = V[j].Month, LAMBDA t : t.Quantity)
                /\ \A j \in 1..(Len(V) - 1) : StrLess(V[j].Month, V[j + 1].Month)

\* a bundle whose records are of two months, the later month read first
C17_Witness ==
    /\ FreshBundle(1)
    /\ Len(response[1].data.MonthlySales) = 2
    /\ Len(plcResult[1].Transactions) = MaxRecords
    /\ StrLess(GetMonth(plcResult[1].Transactions[2]), GetMonth(plcResult[1].Transactions[1]))

\* C18: the region view has min(30, number of regions) rows, each of a region
\* of its own; a row's total revenue is the sum of the total prices and its
\* items sold the sum of the quantities of the records of its region; no row
\* has a greater revenue than a row before it; and no region left out has a
\* greater revenue than one in the view.
C18_TopByRegion ==
    \A c \in Callers :
        FreshBundle(c) =>
            LET T        == plcResult[c].Transactions
                V        == response[c].data.TopRegions
                regions  == {T[i].Region : i \in 1..Len(T)}
                included == {V[j].Region : j \in 1..Len(V)}
                revenue(r) == Total(T, LAMBDA t : t.Region = r, LAMBDA t : t.TotalPrice)
            IN  /\ Len(V) = Min(TopRegionsLimit, Cardinality(regions))
                /\ Cardinality(included) = Len(V)
                /\ included \subseteq regions
                /\ \A j \in 1..Len(V) :
                      /\ V[j].TotalRevenue = revenue(V[j].Region)
                      /\ V[j].ItemsSold =
                            Total(T, LAMBDA t : t.Region = V[j].Region, LAMBDA t : t.Quantity)
                /\ NonIncreasing(V, LAMBDA row : row.TotalRevenue)
                /\ \A r \in regions \ included :
                      \A j \in 1..Len(V) : ~FGreater(revenue(r), V[j].TotalRevenue)

\* the bundle of a source of more than 30 regions has 30 region rows, and a
\* region left out has the revenue of the last one in the view
C18_Witness ==
    /\ FreshBundle(1)
    /\ Cardinality({plcResult[1].Transactions[i].Region :
                       i \in 1..Len(plcResult[1].Transactions)}) > TopRegionsLimit
    /\ Len(response[1].data.TopRegions) = TopRegionsLimit
    /\ \E i \in 1..Len(plcResult[1].Transactions) :
          LET t == plcResult[1].Transactions[i]
              V == response[1].data.TopRegions
          IN  /\ \A j \in 1..Len(V) : V[j].Region # t.Region
              /\ t.TotalPrice = V[Len(V)].TotalRevenue

\* the orderings of the records of T
Orderings(T) ==
    {[i \in 1..Len(T) |-> T[p[i]]] :
        p \in {f \in [1..Len(T) -> 1..Len(T)] : \A a, b \in 1..Len(T) : f[a] = f[b] => a = b}}

Rows(V) == {V[j] : j \in 1..Len(V)}

\* two computations of a view agree: the same rows, and the same sequence when
\* no two rows have the same sort key
SameView(V, W, Key(_)) ==
    /\ Rows(V) = Rows(W)
    /\ (\A j, k \in 1..Len(V) : j # k => Key(V[j]) # Key(V[k])) => V = W

SameContents(d, e) ==
    /\ SameView(d.CountryRevenue, e.CountryRevenue, LAMBDA row : row.TotalRevenue)
    /\ SameView(d.TopProducts, e.TopProducts, LAMBDA row : row.PurchaseCount)
    /\ SameView(d.MonthlySales, e.MonthlySales, LAMBDA row : row.Month)
    /\ SameView(d.TopRegions, e.TopRegions, LAMBDA row : row.TotalRevenue)

\* C19: the bundle generated from the records in one order has the contents
\* of every bundle GenerateAnalytics can produce from the same records in any
\* other order: view by view the same rows with the same field values, and
\* the same sequence where the sort keys are distinct.
C19_OrderInvariant ==
    \A c \in Callers :
        (FreshBundle(c) /\ Len(plcResult[c].Transactions) <= MaxRecords) =>
            \A T \in Orderings(plcResult[c].Transactions) :
                \A e \in GenerateAnalytics(T, 0) : SameContents(response[c].data, e)

(***************************************************************************)
(* Properties of the row parser (SpecParse).                               *)
(***************************************************************************)
\* C20: every transaction ProcessLargeCSV returns has a transaction id that
\* is not empty, a quantity greater than zero, and a price, a total price and
\* a stock quantity that are not negative; every data row is either such a
\* transaction or counted as an error.
C20_RecordInvariants ==
    \A c \in Callers :
        Returned(c) =>
            LET T == plcResult[c].Transactions
            IN  /\ \A i \in 1..Len(T) :
                      /\ T[i].TransactionID # <<>>
                      /\ T[i].Quantity > 0
                      /\ FloatGeqZero(T[i].Price)
                      /\ FloatGeqZero(T[i].TotalPrice)
                      /\ T[i].StockQuantity >= 0
                /\ Len(T) + plcResult[c].Stats.ErrorCount = Len(source.lines) - 1

(***************************************************************************)
(* Properties of the reader, the workers and the closer (SpecPipe).        *)
(***************************************************************************)
RECURSIVE Concat(_)
\* the rows of a sequence of batches, one batch after the other
Concat(batches) ==
    IF batches = <<>> THEN <<>> ELSE Head(batches) \o Concat(Tail(batches))

\* c's readBatches has returned
ReaderDone(c) == reader[c].pc = "done"

\* C21: while the context is not cancelled, the batches readBatches has sent
\* are full except that the last one, sent at the end of the input, holds
\* between one and batchSize rows; no batch is empty; their rows, one batch
\* after the other, are the data rows the csv reader has accepted so far, in
\* order, and all of them once the reader has returned.  Every send puts on
\* the batch channel the batch whose index is the number of batches sent
\* before it, so the indices are 0, 1, 2, ... without a gap.
C21_BatchesInOrder ==
    /\ [](\A c \in Callers :
            (pc[c] = "plc_run" /\ ~ctxDone[c]) =>
                LET sent == sentBatches[c]
                    rows == sourceRecords(source.lines)
                    n    == Len(Concat(sent))
                IN  /\ \A i \in 1..Len(sent) :
                          /\ sent[i] # <<>>
                          /\ Len(sent[i]) <= batchSize
                          /\ (i < Len(sent) \/ ~ReaderDone(c)) => Len(sent[i]) = batchSize
                    /\ n <= Len(rows)
                    /\ Concat(sent) = SubSeq(rows, 1, n)
                    /\ ReaderDone(c) => n = Len(rows))
    /\ [][\A c \in Callers :
            Len(sentBatches'[c]) > Len(sentBatches[c]) =>
                /\ Len(sentBatches'[c]) = Len(sentBatches[c]) + 1
                /\ batchChan'[c].q # <<>>
                /\ LET b == batchChan'[c].q[Len(batchChan'[c].q)]
                   IN  /\ b.Index = Len(sentBatches[c])
                       /\ b.Records = sentBatches'[c][Len(sentBatches'[c])]]_vars

\* the reader has returned uncancelled after a full batch and a shorter last one
C21_Witness ==
    /\ pc[1] = "plc_run" /\ ~ctxDone[1] /\ ReaderDone(1)
    /\ Len(sentBatches[1]) = 2
    /\ Len(sentBatches[1][1]) = batchSize
    /\ Len(sentBatches[1][2]) < batchSize

(***************************************************************************)
(* Properties of the empty input (SpecAgg).                                *)
(***************************************************************************)
\* the source holds its header and no data row
HeaderOnly == source.exists /\ Len(source.lines) = 1

\* C22: a bundle generated from no transactions has four empty views and a
\* total of zero records; ProcessLargeCSV on a source with only its header
\* returns without error, having sent no batch, with no transactions, no
\* errors counted and the data-loss condition not raised, and the request
\* answers with that empty bundle.
C22_EmptyInput ==
    \A c \in Callers :
        /\ (FreshBundle(c) /\ plcResult[c].Transactions = <<>>) =>
              /\ response[c].data.CountryRevenue = <<>>
              /\ response[c].data.TopProducts = <<>>
              /\ response[c].data.MonthlySales = <<>>
              /\ response[c].data.TopRegions = <<>>
              /\ response[c].data.TotalRecords = 0
        /\ (plcResult[c].returned /\ HeaderOnly) =>
              /\ ~plcResult[c].err
              /\ sentBatches[c] = <<>>
              /\ plcResult[c].log.totalBatches = 0
              /\ plcResult[c].Transactions = <<>>
              /\ plcResult[c].Stats.TotalRecords = 0
              /\ plcResult[c].Stats.ProcessedRecords = 0
              /\ plcResult[c].Stats.ErrorCount = 0
              /\ ~plcResult[c].log.dataLoss
        /\ (HeaderOnly /\ pc[c] = "idle") => FreshBundle(c)

\* the request over a source with only its header has answered with a bundle
C22_Witness ==
    /\ HeaderOnly
    /\ FreshBundle(1)
    /\ plcResult[1].log.totalBatches = 0
    /\ response[1].data.TotalRecords = 0

(***************************************************************************)
(* Properties of the memory slot (Spec).                                   *)
(***************************************************************************)
\* c's LoadFromCache makes, in this step, the nil and TTL test / its return
LoadFromCache_Tests(c) == pc[c] = "cache" /\ pc'[c] # "cache"
LoadFromCache_Returns(c) == pc[c] = "cache_mem" /\ pc'[c] # "cache_mem"

\* the snapshot in the slot was saved less than the TTL ago
YoungerThanTTL == now - cacheTime < cacheTTL

\* C23: a LoadFromCache that finds the slot empty, as it is before any save,
\* reports a miss.  One that finds a snapshot d that SaveToMemory stored less
\* than the TTL ago, with the memory in use not above the ceiling, reports a
\* hit: its result has the four views and the total of d and the cache-hit
\* flag set.
C23_HitAfterSave ==
    [][\A c \in Callers :
          /\ (LoadFromCache_Tests(c) /\ cacheData = Nil) =>
                (pc'[c] = "file" /\ response'[c] = NoResponse)
          /\ (LoadFromCache_Tests(c) /\ cacheData # Nil /\ YoungerThanTTL) =>
                pc'[c] = "cache_mem"
          /\ (LoadFromCache_Returns(c) /\ ~memoryExceeded(memStats[c])) =>
                /\ pc'[c] = "idle"
                /\ response'[c].kind = "ok" /\ response'[c].from = "memory"
                /\ content(response'[c].data) = content(cacheData.data)
                /\ response'[c].data.CacheHit]_vars

\* a request is answered from the slot with the bundle an earlier request
\* generated and saved, in the same clock tick
C23_Witness ==
    /\ response[1].kind = "ok" /\ response[1].from = "memory"
    /\ response[1].data.CacheHit
    /\ cacheData # Nil /\ YoungerThanTTL
    /\ \E p \in published : p.req = cacheData.obj /\ p.req < reqId[1]
                              /\ content(p.data) = content(response[1].data)

\* C24: LoadFromCache passes its test, and reports a hit, only for a snapshot
\* that is present and strictly younger than the TTL, with the memory in use
\* not above the ceiling; a snapshot whose age is the TTL or more is a miss.
C24_HitOnlyBeforeTTL ==
    [][\A c \in Callers :
          /\ (LoadFromCache_Tests(c) /\ pc'[c] = "cache_mem") =>
                (cacheData # Nil /\ YoungerThanTTL)
          /\ (LoadFromCache_Tests(c) /\ ~YoungerThanTTL) => pc'[c] = "file"
          /\ (LoadFromCache_Returns(c) /\ response'[c].kind = "ok") =>
                ~memoryExceeded(memStats[c])]_vars


(***************************************************************************)
(* Properties of GetCountryRevenue (SpecPage).                             *)
(***************************************************************************)
\* a parameter that is present, numeric and not negative, and its number
Numeric(s) == s # <<>> /\ AllDigits(s)

Requested(s, default) == IF Numeric(s) THEN DigitsVal(s) ELSE default

\* the request of goroutine c has been answered from a bundle
Paged(c) == pc[c] = "returned" /\ op[c] = "getAnalyticsData" /\ analytics[c] # <<>>

\* C25: GetCountryRevenue answers with the rows [min(offset, total),
\* min(offset + limit, total)) of the revenue view, where a missing,
\* non-numeric or negative parameter takes its default (limit 100, offset 0)
\* and limit is capped at 1000; count is the number of rows returned, has_more
\* holds iff rows remain after the page, and the slice never panics.
C25_Pagination ==
    \A c \in Callers :
        Paged(c) =>
            LET view   == analytics[c][1].CountryRevenue
                total  == Len(view)
                limit  == Min(Requested(query.limit, DefaultLimit), MaxLimit)
                offset == Requested(query.offset, 0)
                first  == Min(offset, total)
                last   == Min(offset + limit, total)
            IN  /\ response[c].kind = "page"
                /\ response[c].data = SubSeq(view, first + 1, last)
                /\ response[c].count = Len(response[c].data)
                /\ response[c].total = total
                /\ response[c].has_more = (last < total)

\* the same for parameters that fit an int
C25_PaginationInRange ==
    \A c \in Callers :
        (/\ Requested(query.limit, 0) <= IntMax
         /\ Requested(query.offset, 0) <= IntMax) => C25_Pagination


(***************************************************************************)
(* Properties of the serialization lock (SpecRace).                        *)
(***************************************************************************)
\* goroutine c is past its ProcessLargeCSV call and generates the aggregates
\* of its run or stores them
Recomputing(c) == pc[c] \in {"store", "rc_save", "rc_wait"}

\* the SaveToFile call of the run of request r is under way
CacheWriting(r) == writers[r].phase \in {"open", "write"}

\* C26: the aggregate generation and the cache writes of one run never
\* overlap with the ingestion, the aggregate generation or the cache writes
\* of another run.
C26_LockCoversOperation ==
    /\ \A c, d \in Callers :
          (c # d /\ Recomputing(c)) => ~(PipelineActive(d) \/ Recomputing(d))
    /\ \A r \in Requests, d \in Callers :
          (CacheWriting(r) /\ reqId[d] # r) => ~(PipelineActive(d) \/ Recomputing(d))
    /\ \A r, s \in Requests : (CacheWriting(r) /\ CacheWriting(s)) => r = s


(***************************************************************************)
(* Termination of ProcessLargeCSV (SpecLive).                              *)
(***************************************************************************)
\* the goroutines the call of c started have all exited
AllExited(c) ==
    /\ reader[c].pc = "done"
    /\ \A w \in WorkerIds : workers[c][w].pc \in {"off", "done"}
    /\ resultChan[c].closed

\* C27: every ProcessLargeCSV call on a finite source with at least one
\* worker eventually returns, cancelled or not; when its collector is through
\* with the results channel and the batch-count channel, the reader, every
\* worker and the closer have exited.
C27_Terminates ==
    /\ \A c \in Callers : (pc[c] = "plc_lock") ~> (pc[c] = "returned" /\ plcResult[c].returned)
    /\ [](\A c \in Callers : (pc[c] = "plc_return" /\ reader[c].pc # "off") => AllExited(c))

\* a cancelled call returns after its reader delivered as many batches as the
\* batch channel holds and stopped before the end of the source
C27_Witness ==
    \E c \in Callers :
        /\ pc[c] = "plc_return"
        /\ ctxDone[c]
        /\ Len(sentBatches[c]) = BatchChanCap
        /\ reader[c].pos <= Len(source.lines)


(***************************************************************************)
(* Properties of the goroutines of one call (SpecPipe).                    *)
(***************************************************************************)
\* C28: readBatches sends exactly one value on the batch-count channel on
\* every way out (end of input, cancellation seen at the head of the loop,
\* cancellation while sending a full batch) and none before; the value is the
\* number of batches delivered to the batch channel, and the batches
\* delivered carry the indices 0, 1, ... in the order of delivery, so they
\* are exactly 0..count-1.
C28_OneCount ==
    /\ [](\A c \in Callers :
            pc[c] = "plc_run" =>
                /\ Len(batchCount[c]) = (IF ReaderDone(c) THEN 1 ELSE 0)
                /\ ReaderDone(c) => batchCount[c][1] = Len(sentBatches[c]))
    /\ [][\A c \in Callers :
            (pc[c] = "plc_run" /\ sentBatches'[c] # sentBatches[c]) =>
                /\ Len(sentBatches'[c]) = Len(sentBatches[c]) + 1
                /\ batchChan'[c].q[Len(batchChan'[c].q)].Index = Len(sentBatches[c])]_vars

\* the reader has returned on cancellation before the end of the source,
\* giving up a batch it held, after it had delivered another
C28_Witness ==
    \E c \in Callers :
        /\ pc[c] = "plc_run" /\ ReaderDone(c) /\ ctxDone[c]
        /\ reader[c].pos <= Len(source.lines)
        /\ batchCount[c] = <<1>>
        /\ reader[c].totalRowsRead > SumSeq([i \in 1..Len(sentBatches[c]) |-> Len(sentBatches[c][i])])


\* the rows of a batch that parse, as transactions, in row order
Parsed(batch) ==
    LET good == SelectSeq(batch, LAMBDA row : ~ParseCSVRow(row).err)
    IN  [i \in 1..Len(good) |-> ParseCSVRow(good[i]).t]

\* the results of call c that exist: held by a worker about to send, in the
\* results channel, or collected
PendingResults(c) == {workers[c][w].result[1] : w \in {w \in WorkerIds : workers[c][w].pc = "send"}}

EmittedResults(c) ==
    PendingResults(c)
      \cup {resultChan[c].q[i] : i \in 1..Len(resultChan[c].q)}
      \cup {collector[c].batchResults[i] : i \in DOMAIN collector[c].batchResults}

\* the number of results of call c that exist
EmittedCount(c) ==
    Cardinality({w \in WorkerIds : workers[c][w].pc = "send"})
      + Len(resultChan[c].q) + Cardinality(DOMAIN collector[c].batchResults)

\* C29: every result a worker emits carries the index of the batch it was
\* made from, its records are the rows of that batch that parse, in row
\* order (a failed row does not stop the rows after it), and its row-error
\* count plus its records is the number of rows of the batch; no two results
\* carry the same index, and unless the call is cancelled every batch
\* delivered has its result when the collector is done.
C29_OneResultPerBatch ==
    \A c \in Callers :
        pc[c] \in {"plc_run", "plc_return"} =>
            /\ \A r \in EmittedResults(c) :
                  /\ r.BatchIndex \in 0..(Len(sentBatches[c]) - 1)
                  /\ r.Transactions = Parsed(sentBatches[c][r.BatchIndex + 1])
                  /\ Len(r.Transactions) + r.ParseErrors = Len(sentBatches[c][r.BatchIndex + 1])
            /\ \A i \in DOMAIN collector[c].batchResults :
                  collector[c].batchResults[i].BatchIndex = i
            /\ Cardinality({r.BatchIndex : r \in EmittedResults(c)}) = EmittedCount(c)
            /\ (pc[c] = "plc_return" /\ ~ctxDone[c] /\ ReaderDone(c)) =>
                  DOMAIN collector[c].batchResults = 0..(Len(sentBatches[c]) - 1)

\* two results are collected, and the batch of the first has a row that fails
\* before a row that parses
C29_Witness ==
    \E c \in Callers :
        /\ pc[c] = "plc_return"
        /\ DOMAIN collector[c].batchResults = {0, 1}
        /\ collector[c].batchResults[0].ParseErrors = 1
        /\ Len(collector[c].batchResults[0].Transactions) = 1
        /\ ParseCSVRow(sentBatches[c][1][1]).err


\* every worker of call c has returned
WorkersReturned(c) == \A w \in WorkerIds : workers[c][w].pc \in {"off", "done"}

\* C30: the results channel is closed only after every worker has returned
\* and, once closed, stays closed and receives nothing more, so it is closed
\* once; the collector reads the batch count and goes on to reassembly only
\* after the results channel has been closed and drained.
C30_CloseAfterWorkers ==
    /\ [](\A c \in Callers :
            /\ (pc[c] = "plc_run" /\ resultChan[c].closed) => WorkersReturned(c)
            /\ (pc[c] = "plc_return" /\ reader[c].pc # "off") =>
                  resultChan[c].closed /\ resultChan[c].q = <<>>)
    /\ [][\A c \in Callers :
            /\ (pc[c] = "plc_run" /\ ~resultChan[c].closed /\ resultChan'[c].closed) =>
                  WorkersReturned(c)
            /\ (pc[c] = "plc_run" /\ resultChan[c].closed) =>
                  /\ resultChan'[c].closed
                  /\ Len(resultChan'[c].q) <= Len(resultChan[c].q)
                  /\ workers'[c] = workers[c]
            /\ (pc[c] = "plc_run" /\ pc'[c] = "plc_return") =>
                  resultChan[c].closed /\ resultChan[c].q = <<>> /\ batchCount[c] # <<>>]_vars

\* the channel is closed after two workers returned, with results the
\* collector has yet to take
C30_Witness ==
    \E c \in Callers :
        /\ pc[c] = "plc_run"
        /\ resultChan[c].closed /\ resultChan[c].q # <<>>
        /\ \A w \in WorkerIds : workers[c][w].pc = "done"


(***************************************************************************)
(* Backpressure (SpecLive).                                                *)
(***************************************************************************)
\* the batches of call c that are read and not yet a BatchResult: the one the
\* reader holds, those in the batch channel, those a worker has received
InFlightBatches(c) ==
    (IF reader[c].batch # <<>> THEN 1 ELSE 0)
      + Len(batchChan[c].q)
      + Cardinality({w \in WorkerIds : workers[c][w].pc = "check"})

\* C31: the batch channel never holds more than its capacity, the reader
\* holds at most one batch and reads no row while its send waits, so the
\* batches read and not yet turned into a result never exceed the capacity
\* plus one plus the number of workers.
C31_Backpressure ==
    /\ [](\A c \in Callers :
            /\ Len(batchChan[c].q) <= BatchChanCap
            /\ Len(reader[c].batch) <= batchSize
            /\ pc[c] = "plc_run" => InFlightBatches(c) <= BatchChanCap + 1 + workerPool)
    /\ [][\A c \in Callers :
            (pc[c] = "plc_run" /\ reader[c].pc = "send" /\ reader'[c].pc = "send") =>
                reader'[c] = reader[c]]_vars

\* the bound is met: the channel is full, the reader waits with the next
\* batch and both workers hold one
C31_Witness ==
    \E c \in Callers :
        /\ pc[c] = "plc_run" /\ workerPool = MaxWorkers
        /\ reader[c].pc = "send"
        /\ Len(batchChan[c].q) = BatchChanCap
        /\ InFlightBatches(c) = BatchChanCap + 1 + workerPool


(***************************************************************************)
(* The statistics of ProcessLargeCSV (SpecPipe).                           *)
(***************************************************************************)
\* the rows of the collected batches of call c that failed to parse
RowFailures(c) ==
    LET done == plcResult[c].log.completed
        F[i \in 0..Len(sentBatches[c])] ==
            IF i = 0 THEN 0
            ELSE F[i - 1] + (IF (i - 1) \in done
                             THEN Len(sentBatches[c][i]) - Len(Parsed(sentBatches[c][i]))
                             ELSE 0)
    IN  F[Len(sentBatches[c])]

\* C32: in the statistics ProcessLargeCSV returns, TotalRecords is the number
\* of data rows seen (the rows that parsed plus the rows that failed),
\* ProcessedRecords is the number of rows that parsed, which is the length of
\* the returned sequence, and ErrorCount is the number of row failures plus
\* the number of missing batches, each counted once.
C32_Statistics ==
    \A c \in Callers :
        Returned(c) =>
            /\ plcResult[c].Stats.ProcessedRecords = Len(plcResult[c].Transactions)
            /\ plcResult[c].Stats.ErrorCount =
                  RowFailures(c) + Cardinality(plcResult[c].log.missing)
            /\ plcResult[c].Stats.TotalRecords =
                  Len(plcResult[c].Transactions) + RowFailures(c)

\* the same without the total
C32_StatisticsButTotal ==
    \A c \in Callers :
        Returned(c) =>
            /\ plcResult[c].Stats.ProcessedRecords = Len(plcResult[c].Transactions)
            /\ plcResult[c].Stats.ErrorCount =
                  RowFailures(c) + Cardinality(plcResult[c].log.missing)


\* the data rows of the source
DataRows == IF source.exists /\ source.lines # <<>> THEN Len(source.lines) - 1 ELSE 0

\* every data row of the source was read, delivered and parsed, and no batch
\* is missing
NothingLost(c) ==
    /\ plcResult[c].log.missing = {}
    /\ Len(plcResult[c].Transactions) = DataRows

\* C33: the data-loss condition is flagged iff the reconstructed record count
\* is below 95% of the number of data rows of the source; a run in which
\* every row parses and no batch is missing never flags it, whatever the
\* source length and the batch size; the flag neither fails the call nor
\* changes the records it returns.
C33_DataLossFlag ==
    \A c \in Callers :
        (plcResult[c].returned /\ ~plcResult[c].err /\ reader[c].pc # "off") =>
            /\ plcResult[c].log.dataLoss = (100 * Len(plcResult[c].Transactions) < 95 * DataRows)
            /\ NothingLost(c) => ~plcResult[c].log.dataLoss
            /\ plcResult[c].Transactions =
                  recordsOf(sentBatches[c], plcResult[c].log.completed, plcResult[c].log.totalBatches)


\* the second part of C33 alone: a run that lost nothing is not flagged
C33_CompleteRunUnflagged ==
    \A c \in Callers :
        (plcResult[c].returned /\ ~plcResult[c].err /\ reader[c].pc # "off" /\ NothingLost(c)) =>
            ~plcResult[c].log.dataLoss


(***************************************************************************)
(* The memory slot (SpecRace, Spec).                                       *)
(***************************************************************************)
\* C34: once a snapshot object is in the memory slot no step changes any of
\* its fields: the slot either keeps the object as it is or comes to hold
\* another object or none.
C34_StoredSnapshotImmutable ==
    [][(cacheData # Nil /\ cacheData' # Nil /\ cacheData'.obj = cacheData.obj) =>
          cacheData'.data = cacheData.data]_vars


\* what the memory slot refers to
SlotRef == IF cacheData = Nil THEN 0 - 1 ELSE cacheData.obj

\* C35: the reference and the timestamp of the memory slot are written only
\* under the exclusive lock, that is, while no goroutine holds the shared
\* lock.
C35_WritesUnderWriteLock ==
    [][(SlotRef' # SlotRef \/ cacheTime' # cacheTime) => rlock = {}]_vars


\* goroutine c ends a get() whose pipeline ran in this call
FreshReturn(c) == pc[c] = "store" /\ pc'[c] = "idle"

\* the memory part of C36
C36_SlotAfterFreshRun ==
    [][\A c \in Callers :
          FreshReturn(c) =>
              /\ cacheData' = Ptr(reqId[c], response'[c].data)
              /\ cacheTime' = now]_vars

\* the file part of C36: the write of the snapshot to the file is under way
C36_FileAfterFreshRun ==
    [][\A c \in Callers :
          FreshReturn(c) =>
              /\ writers'[reqId[c]].phase = "open"
              /\ writers'[reqId[c]].data = <<response'[c].data>>]_vars

\* C36: when a get() that ran the pipeline returns, GetAnalytics and
\* getAnalyticsData alike, the memory slot holds the snapshot it computed
\* with the time of the store, and the snapshot is on its way to the file.
C36_FreshRunCached ==
    [][\A c \in Callers :
          FreshReturn(c) =>
              /\ cacheData' = Ptr(reqId[c], response'[c].data)
              /\ cacheTime' = now
              /\ writers'[reqId[c]].phase = "open"
              /\ writers'[reqId[c]].data = <<response'[c].data>>]_vars


(***************************************************************************)
(* The age of what get() serves (Spec).                                    *)
(***************************************************************************)
\* the memory slot holds a snapshot older than the TTL
SlotExpired == cacheData # Nil /\ cacheExpired

\* a bundle without its cache-hit flag
Content(data) == [data EXCEPT !.CacheHit = FALSE]

\* C37: once the memory entry has expired a get() is not served from the
\* durable file, and a file hit that stores again the snapshot the slot
\* already held does not make it younger.
C37_NoStaleFromFile ==
    [][\A c \in Callers :
          /\ (pc[c] = "file" /\ pc'[c] = "file_save") => ~SlotExpired
          /\ (/\ pc[c] = "file_save" /\ pc'[c] # "file_save"
              /\ SlotExpired
              /\ Content(cacheData.data) = Content(analytics[c][1])) =>
                 cacheTime' = cacheTime]_vars

\* the second part of C37 alone
C37_FileHitKeepsAge ==
    [][\A c \in Callers :
          (/\ pc[c] = "file_save" /\ pc'[c] # "file_save"
           /\ SlotExpired
           /\ Content(cacheData.data) = Content(analytics[c][1])) =>
              cacheTime' = cacheTime]_vars


\* C38: the bundle a get() returns has its cache-hit flag set iff it was
\* served from the memory slot or from the durable file, and clear iff the
\* pipeline ran in that call, on GetAnalytics and getAnalyticsData alike.
C38_CacheHitFlag ==
    \A c \in Callers :
        (pc[c] = "idle" /\ response[c].kind = "ok") =>
            (response[c].data.CacheHit = (response[c].from \in {"memory", "file"}))

\* C38 for GetAnalytics alone
C38_CacheHitFlagGetAnalytics ==
    \A c \in Callers :
        (pc[c] = "idle" /\ response[c].kind = "ok" /\ op[c] = "GetAnalytics") =>
            (response[c].data.CacheHit = (response[c].from \in {"memory", "file"}))


(***************************************************************************)
(* The accumulators of the revenue view (SpecAgg).                         *)
(***************************************************************************)
\* the rows of view V that stand for the country and product name of record t
RowsOf(V, t) == {j \in 1..Len(V) : V[j].Country = t.Country /\ V[j].ProductName = t.ProductName}

\* C39: two records are accumulated into the same row of the revenue view
\* iff they have the same country and the same product name: records of
\* the same pair have one row between them and records of different pairs
\* have a row each, whatever the fields hold, the "|" of the key included.
C39_AccumulatorPerPair ==
    \A c \in Callers :
        FreshBundle(c) =>
            LET T == plcResult[c].Transactions
                V == response[c].data.CountryRevenue
            IN  \A i, j \in 1..Len(T) :
                    /\ Cardinality(RowsOf(V, T[i])) = 1
                    /\ (T[i].Country = T[j].Country /\ T[i].ProductName = T[j].ProductName)
                          = (RowsOf(V, T[i]) = RowsOf(V, T[j]))


(***************************************************************************)
(* The release of globalProcessingMu (SpecLock).                           *)
(***************************************************************************)
\* C40: the lock is held only by a goroutine inside ProcessLargeCSV and is
\* released on every way out of it (the source cannot be opened, the header
\* cannot be read, the context is cancelled, the run completes), so every
\* caller waiting at the lock eventually takes it and returns, whatever
\* became of the call before it.
C40_LockReleased ==
    /\ [](\A c \in Callers :
            /\ mu = c => pc[c] \in {"plc_run", "plc_return"}
            /\ pc[c] \in {"plc_run", "plc_return"} => mu = c)
    /\ \A c \in Callers : (pc[c] = "plc_lock") ~> (pc[c] = "returned" /\ mu # c)

\* a call has taken the lock after the call before it returned an error
C40_Witness ==
    \E c, d \in Callers :
        /\ c # d
        /\ pc[c] = "returned" /\ plcResult[c].err
        /\ pc[d] = "plc_return" /\ mu = d

=============================================================================
